---- MODULE Spec2Model ----
(***************************************************************************)
(* A model of the query compiler of Zenlytic/granite (metrics_layer):      *)
(* the request resolvers, the dispatch to the single / cumulative /        *)
(* merged generators, the filter compiler, the resolver of arbitrary       *)
(* merged queries and the expansion of sets.  SQL text is modelled as a    *)
(* structured statement (select list, FROM, GROUP BY, criteria, CTEs,      *)
(* trailing semicolon); a field's SQL fragment is modelled by the field    *)
(* and the dialect family that renders it.                                 *)
(***************************************************************************)
EXTENDS Integers, Sequences, FiniteSets, TLC

\* ------------------------------------------------------------------ bounds
MaxMetrics == 2
MaxDimensions == 2
MaxFilters == 1
MaxSetFields == 3
MaxGroupDepth == 2
MaxViewFields == 2
MaxCalls == 3
MaxStepFields == 2
\* the nested field_names calls a run is followed through
MaxNesting == 4

\* the project: request name -> Field object, as created at project load
VARIABLE ProjectFields

\* Python None / an absent dictionary key
NONE == "NONE"

Range(s) == {s[i] : i \in 1..Len(s)}

SeqsUpTo(S, n) == UNION {[1..k -> S] : k \in 0..n}

\* ----------------------------------------------------------------- dialects
Dialects == {"SNOWFLAKE", "REDSHIFT", "POSTGRES", "BIGQUERY", "DRUID"}

\* ------------------------------------------------------------------ project
\* A loaded project: five views, three join components.
join_graph_hash(view) ==
    CASE view \in {"orders", "customers"} -> "g1"
      [] view \in {"web", "web_site"} -> "g3"
      [] OTHER -> "g2"

view_default_date(view) ==
    CASE view = "orders" -> "order"
      [] view = "sessions" -> "session"
      [] view = "web" -> "site_visit"
      [] view = "web_site" -> "visit"
      [] OTHER -> NONE

Fld(view, name, field_type, type, pk, measure, refs, dg) ==
    [view |-> view, name |-> name, field_type |-> field_type, type |-> type,
     primary_key |-> pk, measure |-> measure, refs |-> refs, dimension_group |-> dg]

\* request name -> field definition (Field objects created at project load)
LoadedProject ==
    ("order_id" :> Fld("orders", "order_id", "dimension", "string", "yes", NONE, <<>>, NONE))
 @@ ("channel" :> Fld("orders", "channel", "dimension", "string", "no", NONE, <<>>, NONE))
 @@ ("order_date" :> Fld("orders", "order", "dimension_group", "time", "no", NONE, <<>>, "date"))
 @@ ("order_week" :> Fld("orders", "order", "dimension_group", "time", "no", NONE, <<>>, "week"))
 @@ ("total_revenue" :> Fld("orders", "total_revenue", "measure", "sum", "no", NONE, <<>>, NONE))
 @@ ("total_revenue_net" :>
        Fld("orders", "total_revenue_net", "measure", "sum", "no", NONE, <<>>, NONE))
 @@ ("total_lifetime_revenue" :>
        Fld("orders", "total_lifetime_revenue", "measure", "cumulative", "no", "total_revenue", <<>>, NONE))
 @@ ("ltv" :> Fld("orders", "ltv", "measure", "number", "no", NONE, <<"total_lifetime_revenue">>, NONE))
 @@ ("lifetime_revenue_share" :>
        Fld("orders", "lifetime_revenue_share", "measure", "number", "no", NONE,
            <<"total_lifetime_revenue", "total_revenue">>, NONE))
 @@ ("aov" :> Fld("orders", "aov", "measure", "number", "no", NONE, <<"total_revenue">>, NONE))
 @@ ("customer_id" :> Fld("customers", "customer_id", "dimension", "string", "yes", NONE, <<>>, NONE))
 @@ ("region" :> Fld("customers", "region", "dimension", "string", "no", NONE, <<>>, NONE))
 @@ ("is_churned" :> Fld("customers", "is_churned", "dimension", "yesno", "no", NONE, <<>>, NONE))
 @@ ("number_of_customers" :>
        Fld("customers", "number_of_customers", "measure", "count", "no", NONE, <<>>, NONE))
 @@ ("session_id" :> Fld("sessions", "session_id", "dimension", "string", "yes", NONE, <<>>, NONE))
 @@ ("session_date" :> Fld("sessions", "session", "dimension_group", "time", "no", NONE, <<>>, "date"))
 @@ ("number_of_sessions" :>
        Fld("sessions", "number_of_sessions", "measure", "count", "no", NONE, <<>>, NONE))
 @@ ("session_region" :> Fld("sessions", "session_region", "dimension", "string", "no", NONE, <<>>, NONE))
 @@ ("revenue_per_session" :>
        Fld("orders", "revenue_per_session", "measure", "number", "no", NONE,
            <<"total_revenue", "number_of_sessions">>, NONE))
 @@ ("site_visits" :> Fld("web", "site_visits", "measure", "count", "no", NONE, <<>>, NONE))
 @@ ("site_signups" :> Fld("web_site", "site_signups", "measure", "count", "no", NONE, <<>>, NONE))
 @@ ("site_visit_date" :> Fld("web", "site_visit", "dimension_group", "time", "no", NONE, <<>>, "date"))
 @@ ("visit_date" :> Fld("web_site", "visit", "dimension_group", "time", "no", NONE, <<>>, "date"))
 @@ ("lifetime_visits" :>
        Fld("web", "lifetime_visits", "measure", "cumulative", "no", "site_visits", <<>>, NONE))
 @@ ("lifetime_signups" :>
        Fld("web_site", "lifetime_signups", "measure", "cumulative", "no", "site_signups", <<>>, NONE))

FieldNames == DOMAIN ProjectFields

\* Field.is_cumulative: a cumulative measure, or a number whose sql references one
is_cumulative(name) ==
    LET f == ProjectFields[name] IN
    \/ f.type = "cumulative"
    \/ /\ f.type = "number"
       /\ \E i \in 1..Len(f.refs) : ProjectFields[f.refs[i]].type = "cumulative"


\* Field.is_merged_result: the metrics declared as merged results
is_merged_result(name) == name \in {"revenue_per_session"}

\* "<view>.<name>" of a field, the timeframe of a dimension group left out
FieldKey(name) == [view |-> ProjectFields[name].view, name |-> ProjectFields[name].name]
NoKey == [view |-> NONE, name |-> NONE]

\* Field.canon_date: "<view>.<default_date>" of the field's view, None without one
canon_date(name) ==
    IF view_default_date(ProjectFields[name].view) = NONE THEN NoKey
    ELSE [view |-> ProjectFields[name].view, name |-> view_default_date(ProjectFields[name].view)]

\* model.mappings: lists of dimensions that stand for each other across views
Mappings == <<(<<"region", "session_region">>)>>

\* project.get_field("<view>.<name>_<dimension_group>"); NONE when not found
get_field_by_key(key, dimension_group) ==
    LET found == {n \in FieldNames :
                     /\ FieldKey(n) = key
                     /\ ProjectFields[n].dimension_group = dimension_group
                     /\ dimension_group # NONE}
    IN  IF found = {} THEN NONE ELSE CHOOSE n \in found : TRUE

\* project.get_field("<view>.<name>") of a plain field; NONE when not found
get_field_plain(key) ==
    LET found == {n \in FieldNames : FieldKey(n) = key /\ ProjectFields[n].dimension_group = NONE}
    IN  IF found = {} THEN NONE ELSE CHOOSE n \in found : TRUE

\* Field.sql_query: the SQL fragment of a field.  A time dimension group is
\* rendered per dialect family and per its dimension_group attribute (the
\* timeframe); every other field renders the same in all dialects.
DialectFamily(query_type) ==
    CASE query_type \in {"SNOWFLAKE", "REDSHIFT"} -> "SF"
      [] query_type = "BIGQUERY" -> "BQ"
      [] query_type = "POSTGRES" -> "PG"
      [] OTHER -> "DRUID"

\* The dimension_group attribute of the Field objects of the time dimension
\* groups, as set at project load.
DateFieldNames == {n \in FieldNames : ProjectFields[n].field_type = "dimension_group"}
LoadedAttrs == [n \in DateFieldNames |-> ProjectFields[n].dimension_group]

\* Field.alias(with_view=True): view_name, with the timeframe for a dimension group
alias(name, attrs) ==
    [field |-> name, timeframe |-> IF name \in DateFieldNames THEN attrs[name] ELSE NONE]

sql_query(name, query_type, attrs) ==
    IF name \in DateFieldNames
    THEN [field |-> name, dialect |-> DialectFamily(query_type), timeframe |-> attrs[name]]
    ELSE [field |-> name, dialect |-> "ANY", timeframe |-> NONE]

NoSql == [field |-> NONE, dialect |-> NONE, timeframe |-> NONE]

\* ------------------------------------------------------------ filter values
\* A Python value of a filter's "value" key: str, datetime, number, None, or
\* a pypika LiteralValue holding a rendered SQL fragment.
Val(t, v) == [t |-> t, v |-> v, sql |-> NoSql]
LiteralValue(sql) == [t |-> "literal", v |-> NONE, sql |-> sql]
PyNone == Val("none", NONE)

\* A filter dictionary.  keys is the set of keys present in the dict.
FilterDef(keys, field, expression, value, conditions, lop) ==
    [keys |-> keys, field |-> field, expression |-> expression, value |-> value,
     conditions |-> conditions, logical_operator |-> lop,
     literal |-> PyNone, conditional_filter_logic |-> <<>>, query_type |-> NONE]

\* the dictionary with the key "query_type" set
WithQueryType(definition, query_type) ==
    [definition EXCEPT !.keys = @ \cup {"query_type"}, !.query_type = query_type]

PlainFilter(field, expression, value) ==
    FilterDef({"field", "expression", "value"}, field, expression, value, <<>>, NONE)
\* {"literal": <literal>}: a piece of SQL, the empty text, or None
LiteralFilterOf(literal) ==
    [FilterDef({"literal"}, NONE, NONE, PyNone, <<>>, NONE) EXCEPT !.literal = literal]
LiteralFilter == LiteralFilterOf(Val("str", "orders.revenue > 10"))
\* {"conditional_filter_logic": [...]}: a group under its other key
LogicFilter(conditions, lop) ==
    [FilterDef(IF lop = NONE THEN {"conditional_filter_logic"}
               ELSE {"conditional_filter_logic", "logical_operator"},
               NONE, NONE, PyNone, <<>>, lop) EXCEPT !.conditional_filter_logic = conditions]
GroupFilter(conditions, lop) ==
    FilterDef(IF lop = NONE THEN {"conditions"} ELSE {"conditions", "logical_operator"},
              NONE, NONE, PyNone, conditions, lop)
NoFieldFilter(expression, value) ==
    FilterDef({"expression", "value"}, NONE, expression, value, <<>>, NONE)

\* dict.get(key): the value, or None when the key is absent
GetField(d) == IF "field" \in d.keys THEN d.field ELSE NONE

\* ---------------------------------------------------------------- resolvers
\* SingleSQLQueryResolver.parse_identifiers_from_dicts: cond["field"] of every
\* entry; the KeyError of an entry without "field" is turned into QueryError.
parse_identifiers_from_dicts(conditions) ==
    IF \E i \in 1..Len(conditions) : "field" \notin conditions[i].keys
    THEN [err |-> "QueryError", names |-> <<>>]
    ELSE [err |-> NONE, names |-> [i \in 1..Len(conditions) |-> conditions[i].field]]

\* granite SQLQueryResolver.parse_identifiers_from_dicts: same, re-raised as KeyError
granite_parse_identifiers_from_dicts(conditions) ==
    IF \E i \in 1..Len(conditions) : "field" \notin conditions[i].keys
    THEN [err |-> "KeyError", names |-> <<>>]
    ELSE [err |-> NONE, names |-> [i \in 1..Len(conditions) |-> conditions[i].field]]

\* SingleSQLQueryResolver.parse_field_names (where, then having)
parse_field_names(where, having) ==
    LET w == parse_identifiers_from_dicts(where)
        h == parse_identifiers_from_dicts(having)
    IN  IF w.err # NONE THEN [err |-> w.err, where_names |-> <<>>, having_names |-> <<>>]
        ELSE IF h.err # NONE THEN [err |-> h.err, where_names |-> <<>>, having_names |-> <<>>]
        ELSE [err |-> NONE, where_names |-> w.names, having_names |-> h.names]

\* the check of parse_input: no name twice in metrics + dimensions
AmbiguousNames(metrics, dimensions) ==
    LET all_field_names == metrics \o dimensions
    IN  Cardinality(Range(all_field_names)) # Len(all_field_names)

\* parse_input, the metrics loop: has_cumulative_metric
HasCumulativeMetric(metrics) ==
    \E i \in 1..Len(metrics) : ProjectFields[metrics[i]].type = "cumulative"

\* parse_input: metric_view
MetricView(metrics) ==
    IF Len(metrics) = 0 THEN NONE ELSE ProjectFields[metrics[1]].view

\* parse_input, the dimensions loop: no_group_by
NoGroupBy(metrics, dimensions, force_group_by) ==
    \E i \in 1..Len(dimensions) :
        /\ ProjectFields[dimensions[i]].primary_key = "yes"
        /\ ProjectFields[dimensions[i]].view = MetricView(metrics)
        /\ ~force_group_by

NoResolver ==
    [err |-> NONE, has_cumulative_metric |-> FALSE, no_group_by |-> FALSE,
     field_lookup |-> {}, query_type |-> NONE]

\* SingleSQLQueryResolver.parse_input
parse_input(req, names, query_type) ==
    IF AmbiguousNames(req.metrics, req.dimensions)
    THEN [NoResolver EXCEPT !.err = "QueryError"]
    ELSE [err |-> NONE,
          has_cumulative_metric |-> HasCumulativeMetric(req.metrics),
          no_group_by |-> NoGroupBy(req.metrics, req.dimensions, req.force_group_by),
          field_lookup |-> Range(req.metrics) \cup Range(req.dimensions)
                             \cup Range(names.where_names) \cup Range(names.having_names),
          query_type |-> query_type]

\* SingleSQLQueryResolver.__init__: parse_field_names, the connection and
\* query_type, then parse_input
SingleSQLQueryResolver(req) ==
    LET query_type == IF req.query_type # NONE THEN req.query_type ELSE req.connection
        Parsed(names) ==
            IF names.err # NONE THEN [NoResolver EXCEPT !.err = names.err]
            ELSE IF query_type = NONE THEN [NoResolver EXCEPT !.err = "ConfigError"]
            ELSE parse_input(req, names, query_type)
    IN  Parsed(parse_field_names(req.where, req.having))

\* Project.get_explore_from_field of granite: one explore per join component,
\* named after the view it selects from.
granite_explore(view) == IF view \in {"orders", "customers"} THEN "orders" ELSE "sessions"

\* the symmetric_aggregates key of an explore: the sessions explore turns
\* symmetric aggregates off, the orders explore does not have the key
symmetric_aggregates(explore) == IF explore = "sessions" THEN "no" ELSE NONE

\* granite SQLQueryResolver.__init__, derive_explore and parse_input
granite_SQLQueryResolver(req) ==
    LET query_type == IF req.query_type # NONE THEN req.query_type ELSE "SNOWFLAKE"
        Parsed(w, h, all_fields, explore) ==
            IF w.err # NONE THEN [NoResolver EXCEPT !.err = w.err]
            ELSE IF h.err # NONE THEN [NoResolver EXCEPT !.err = h.err]
            ELSE IF Len(all_fields) = 0 THEN [NoResolver EXCEPT !.err = "ValueError"]
            ELSE IF \E i \in 2..Len(all_fields) :
                        granite_explore(ProjectFields[all_fields[i]].view) # explore
                 THEN [NoResolver EXCEPT !.err = "ValueError"]
            \* parse_input line 108
            ELSE IF symmetric_aggregates(explore) = "no"
                 THEN [NoResolver EXCEPT !.err = "NotImplementedError"]
            \* parse_input lines 111-114
            ELSE IF AmbiguousNames(req.metrics, req.dimensions)
                 THEN [NoResolver EXCEPT !.err = "ValueError"]
            ELSE [err |-> NONE,
                  has_cumulative_metric |-> FALSE,
                  no_group_by |-> \E i \in 1..Len(req.dimensions) :
                                     /\ ProjectFields[req.dimensions[i]].primary_key = "yes"
                                     /\ ProjectFields[req.dimensions[i]].view = explore,
                  field_lookup |-> Range(req.metrics) \cup Range(req.dimensions)
                                     \cup Range(w.names) \cup Range(h.names),
                  query_type |-> query_type]
        Derived(all_fields) ==
            Parsed(granite_parse_identifiers_from_dicts(req.where),
                   granite_parse_identifiers_from_dicts(req.having),
                   all_fields,
                   IF Len(all_fields) = 0 THEN NONE
                   ELSE granite_explore(ProjectFields[all_fields[1]].view))
    IN  Derived(IF Len(req.metrics) > 0 THEN req.metrics ELSE req.dimensions)


\* ---------------------------------------------------------- filter compiler
LogicalOperatorOptions == {"and", "or"}
\* only the values of a BigQuery query are cast: a datetime of a Snowflake or
\* Redshift query stays as it is
needs_datetime_cast == {"BIGQUERY"}

\* the texts t with t.lower() == "true"
LowerIsTrue ==
    {
      "TRUE", "TRUe", "TRuE", "TRue",
      "TrUE", "TrUe", "TruE", "True",
      "tRUE", "tRUe", "tRuE", "tRue",
      "trUE", "trUe", "truE", "true" }

\* str(definition.get("value")).lower() == "true": of a string spelled so, or
\* of the boolean True
StrLowerIsTrue(value) ==
    \/ value.t = "str" /\ value.v \in LowerIsTrue
    \/ value.t = "bool" /\ value.v = "True"

\* the texts of the filter values that hold "False" / "True" somewhere
TextsWithFalse == {"False", "Not False", "True or False"}
TextsWithTrue == {"True", "Truely", "True or False"}

\* sub in str(value), for sub "False" or "True": of a string that holds it,
\* or of the boolean of that name
InStr(sub, value) ==
    \/ /\ value.t = "str"
       /\ value.v \in (IF sub = "False" THEN TextsWithFalse ELSE TextsWithTrue)
    \/ value.t = "bool" /\ value.v = sub

\* the truth value of a Python value in a condition
Truthy(value) ==
    CASE value.t = "none" -> FALSE
      [] value.t = "str" -> value.v # ""
      [] value.t = "bool" -> value.v = "True"
      [] value.t = "number" -> value.v # "0"
      [] OTHER -> TRUE
no_expr == {"is_null", "is_not_null", "boolean_true", "boolean_false", "converted", "dropped_off"}

\* datatype_cast: CAST('<value>' AS <datatype>) as a LiteralValue
datatype_cast(value) == [t |-> "cast", v |-> value.v, sql |-> NoSql]

\* A design as the filter compiler sees it; NoDesign is design=None.
Design(no_group_by, query_type, field_lookup) ==
    [present |-> TRUE, no_group_by |-> no_group_by, query_type |-> query_type,
     field_lookup |-> field_lookup]
NoDesign ==
    [present |-> FALSE, no_group_by |-> FALSE, query_type |-> NONE, field_lookup |-> {}]

RECURSIVE MetricsLayerFilter(_, _, _)
RECURSIVE ConstructConditions(_, _, _)

\* validate lines 127-154, the part that needs the design: [err, def].  The
\* substitutions rewrite the caller's dictionary in place; lines 145-153
\* read definition["value"], a KeyError when the dictionary has no value
\* (the dialect test of line 145 and the type test of lines 150 / 153 come
\* first and cut the read short).
ValidateWithDesign(definition, design, attrs) ==
    LET has_value == "value" \in definition.keys
        v1 == IF has_value /\ definition.value.t = "str" /\ definition.value.v \in FieldNames
              THEN LiteralValue(sql_query(definition.value.v, design.query_type, attrs))
              ELSE definition.value
        v2 == IF design.query_type \in needs_datetime_cast /\ v1.t = "datetime"
              THEN datatype_cast(v1)
              ELSE v1
        yesno == ProjectFields[definition.field].type = "yesno"
        e1 == IF yesno /\ InStr("False", v2) THEN "boolean_false" ELSE definition.expression
        e2 == IF yesno /\ InStr("True", v2) THEN "boolean_true" ELSE e1
    IN  \* lines 129-132: design.get_field(key) finds no such field
        IF definition.field \notin FieldNames
        THEN [err |-> "ParseError", def |-> definition]
        ELSE IF ~has_value /\ (design.query_type \in needs_datetime_cast \/ yesno)
        THEN [err |-> "KeyError", def |-> definition]
        ELSE [err |-> NONE, def |-> [definition EXCEPT !.value = v2, !.expression = e2]]

\* MetricsLayerFilter.validate: [err, def], def being the dictionary as the
\* call leaves it
validate(caller_definition, design, attrs) ==
    LET key == GetField(caller_definition)
        \* line 84: definition.get("literal", None)
        filter_literal == IF "literal" \in caller_definition.keys
                          THEN caller_definition.literal ELSE PyNone
        \* lines 85-88: the list under "conditions", else the one under
        \* "conditional_filter_logic"
        by_conditions == "conditions" \in caller_definition.keys
        filter_group_conditions ==
            IF by_conditions THEN caller_definition.conditions
            ELSE IF "conditional_filter_logic" \in caller_definition.keys
            THEN caller_definition.conditional_filter_logic
            ELSE <<>>
        is_boolean_value == StrLowerIsTrue(caller_definition.value) /\ key = NONE
        \* lines 105-106: definition["value"] = True
        definition == IF Len(filter_group_conditions) = 0 /\ is_boolean_value
                      THEN [caller_definition EXCEPT !.keys = @ \cup {"value"},
                                                     !.value = Val("bool", "True")]
                      ELSE caller_definition
    IN  IF Len(filter_group_conditions) > 0
        THEN LET c == ConstructConditions(filter_group_conditions, design, attrs)
                 d == IF by_conditions THEN [definition EXCEPT !.conditions = c.defs]
                      ELSE [definition EXCEPT !.conditional_filter_logic = c.defs]
             IN  IF c.err # NONE THEN [err |-> c.err, def |-> d]
                 ELSE IF /\ "logical_operator" \in definition.keys
                         /\ definition.logical_operator \notin LogicalOperatorOptions
                      THEN [err |-> "ParseError", def |-> d]
                 ELSE [err |-> NONE, def |-> d]
        ELSE IF key = NONE /\ filter_literal.t = "none" /\ ~is_boolean_value
             THEN [err |-> "ParseError", def |-> definition]
        ELSE IF key = NONE /\ Truthy(filter_literal)
             THEN [err |-> NONE, def |-> definition]
        ELSE IF "expression" \notin definition.keys
             THEN [err |-> "KeyError", def |-> definition]
        ELSE IF definition.expression = "UNKNOWN"
             THEN [err |-> "NotImplementedError", def |-> definition]
        ELSE IF definition.value.t = "none" /\ definition.expression \notin no_expr
             THEN [err |-> "ParseError", def |-> definition]
        ELSE IF design.present /\ ~is_boolean_value
             THEN ValidateWithDesign(definition, design, attrs)
        ELSE [err |-> NONE, def |-> definition]

\* MetricsLayerFilter.__init__: without a design the dialect is read from
\* the dictionary (line 55), a KeyError when it has no "query_type"; then
\* the dictionary is validated
MetricsLayerFilter(definition, design, attrs) ==
    IF ~design.present /\ "query_type" \notin definition.keys
    THEN [err |-> "KeyError", def |-> definition]
    ELSE validate(definition, design, attrs)

\* the loop of validate over the conditions of a group (lines 91-92): the
\* children are constructed in order with the design of the group, the
\* first error ends the loop
ConstructConditions(conditions, design, attrs) ==
    IF Len(conditions) = 0 THEN [err |-> NONE, defs |-> <<>>]
    ELSE LET h == MetricsLayerFilter(Head(conditions), design, attrs)
         IN  IF h.err # NONE
             THEN [err |-> h.err, defs |-> <<h.def>> \o Tail(conditions)]
             ELSE LET r == ConstructConditions(Tail(conditions), design, attrs)
                  IN  [err |-> r.err, defs |-> <<h.def>> \o r.defs]

\* the conditions validate constructs (lines 85-92)
ValidatedConditions(definition) ==
    IF "conditions" \in definition.keys THEN definition.conditions
    ELSE IF "conditional_filter_logic" \in definition.keys
    THEN definition.conditional_filter_logic
    ELSE <<>>

RECURSIVE CaughtInValidate(_, _, _)
RECURSIVE CaughtInConditions(_, _, _)

\* the exceptions caught while the conditions of a group are constructed, up
\* to the first condition whose construction raises
CaughtInConditions(conditions, design, attrs) ==
    IF Len(conditions) = 0 THEN {}
    ELSE CaughtInValidate(Head(conditions), design, attrs)
         \cup IF MetricsLayerFilter(Head(conditions), design, attrs).err # NONE THEN {}
              ELSE CaughtInConditions(Tail(conditions), design, attrs)

\* validate lines 137-143: the exceptions the except clause catches and
\* passes over.  A string value is looked up as a field; when the lookup
\* raises, the value stays the string it was.
CaughtInValidate(definition, design, attrs) ==
    IF ~design.present /\ "query_type" \notin definition.keys THEN {}
    ELSE IF Len(ValidatedConditions(definition)) > 0
    THEN CaughtInConditions(ValidatedConditions(definition), design, attrs)
    ELSE IF /\ MetricsLayerFilter(definition, design, attrs).err = NONE
            /\ GetField(definition) \in FieldNames
            /\ design.present
            /\ "value" \in definition.keys
            /\ definition.value.t = "str"
            /\ definition.value.v \notin FieldNames
    THEN {"Exception"}
    ELSE {}

\* __init__ lines 48-50
is_filter_group(definition) ==
    "conditions" \in definition.keys \/ "conditional_filter_logic" \in definition.keys
is_literal_filter(definition) == "literal" \in definition.keys

\* the conditions property: the list under "conditional_filter_logic" when
\* the dictionary has that key, else the one under "conditions", else []
filter_conditions(definition) ==
    IF "conditional_filter_logic" \in definition.keys THEN definition.conditional_filter_logic
    ELSE IF "conditions" \in definition.keys THEN definition.conditions
    ELSE <<>>


\* pypika criteria: a comparison, a literal SQL criterion, the EmptyCriterion,
\* or a ComplexCriterion (a binary AND / OR node)
Leaf(lhs, op, rhs) == [node |-> "leaf", lhs |-> lhs, op |-> op, rhs |-> rhs, args |-> <<>>]
LiteralValueCriterion == [node |-> "literal", lhs |-> NoSql, op |-> NONE, rhs |-> PyNone, args |-> <<>>]
EmptyCriterion == [node |-> "empty", lhs |-> NoSql, op |-> NONE, rhs |-> PyNone, args |-> <<>>]
ComplexCriterion(op, l, r) ==
    [node |-> op, lhs |-> NoSql, op |-> NONE, rhs |-> PyNone, args |-> <<l, r>>]

\* Criterion.all / Criterion.any: crit = EmptyCriterion(); crit &= term (|= term)
RECURSIVE CriterionFold(_, _, _)
CriterionFold(op, crit, terms) ==
    IF Len(terms) = 0 THEN crit
    ELSE CriterionFold(op,
                       IF crit.node = "empty" THEN Head(terms)
                       ELSE IF Head(terms).node = "empty" THEN crit
                       ELSE ComplexCriterion(op, crit, Head(terms)),
                       Tail(terms))

Criterion_all(terms) == CriterionFold("and", EmptyCriterion, terms)
Criterion_any(terms) == CriterionFold("or", EmptyCriterion, terms)

\* MetricsLayerFilter.criterion for the comparison expressions
criterion(definition, query_type, attrs) ==
    Leaf(sql_query(definition.field, query_type, attrs), definition.expression, definition.value)

RECURSIVE group_sql_query(_, _, _)
RECURSIVE GroupConditions(_, _, _)

\* the loop of group_sql_query: one criterion per child, built in order
GroupConditions(conditions, design, attrs) ==
    IF Len(conditions) = 0 THEN [err |-> NONE, crits |-> <<>>]
    ELSE LET Compile(condition_object) ==
                  IF condition_object.err # NONE
                  THEN [err |-> condition_object.err, crit |-> EmptyCriterion]
                  ELSE IF is_filter_group(condition_object.def)
                  THEN group_sql_query(condition_object.def, design, attrs)
                  ELSE IF GetField(condition_object.def) = NONE
                  THEN [err |-> "AttributeError", crit |-> EmptyCriterion]
                  ELSE [err |-> NONE,
                        crit |-> criterion(condition_object.def, design.query_type, attrs)]
             Collect(c, r) ==
                  IF c.err # NONE THEN [err |-> c.err, crits |-> <<>>]
                  ELSE [err |-> r.err,
                        crits |-> IF r.err # NONE THEN <<>> ELSE <<c.crit>> \o r.crits]
         IN  Collect(Compile(MetricsLayerFilter(Head(conditions), design, attrs)),
                     GroupConditions(Tail(conditions), design, attrs))

\* a group_sql_query that joins the children with AND whatever the operator
group_sql_query_conjoined(definition, design, attrs) ==
    LET Combine(pypika_conditions) ==
            IF pypika_conditions.err # NONE
            THEN [err |-> pypika_conditions.err, crit |-> EmptyCriterion]
            ELSE [err |-> NONE, crit |-> Criterion_all(pypika_conditions.crits)]
    IN  Combine(GroupConditions(filter_conditions(definition), design, attrs))

\* MetricsLayerFilter.group_sql_query: [err, crit]
group_sql_query(definition, design, attrs) ==
    LET logical_operator == IF "logical_operator" \in definition.keys
                            THEN definition.logical_operator ELSE NONE
        Combine(pypika_conditions) ==
            IF pypika_conditions.err # NONE
            THEN [err |-> pypika_conditions.err, crit |-> EmptyCriterion]
            ELSE IF logical_operator = "or"
            THEN [err |-> NONE, crit |-> Criterion_any(pypika_conditions.crits)]
            ELSE IF logical_operator = NONE \/ logical_operator = "and"
            THEN [err |-> NONE, crit |-> Criterion_all(pypika_conditions.crits)]
            ELSE [err |-> "ParseError", crit |-> EmptyCriterion]
    IN  Combine(GroupConditions(filter_conditions(definition), design, attrs))

\* MetricsLayerFilter.sql_query of a constructed filter: [err, crit]
\* without a design self.design.functional_pk() (self.design.get_view for a
\* literal) raises AttributeError, and so does self.field.sql_query of a
\* filter constructed without a field
filter_sql_query(definition, design, attrs) ==
    IF ~design.present THEN [err |-> "AttributeError", crit |-> EmptyCriterion]
    ELSE IF is_literal_filter(definition) THEN [err |-> NONE, crit |-> LiteralValueCriterion]
    ELSE IF is_filter_group(definition) THEN group_sql_query(definition, design, attrs)
    ELSE IF GetField(definition) = NONE THEN [err |-> "AttributeError", crit |-> EmptyCriterion]
    ELSE [err |-> NONE, crit |-> criterion(definition, design.query_type, attrs)]

\* A list of filter dictionaries handed to a generator: each is constructed
\* (and so validated and rewritten in place) and compiled, in order.
\* [err, defs, crits]: defs are the caller's dictionaries afterwards.
RECURSIVE CompileFilters(_, _, _)
CompileFilters(defs, design, attrs) ==
    IF Len(defs) = 0 THEN [err |-> NONE, defs |-> <<>>, crits |-> <<>>]
    ELSE LET Collect(f, c, r) ==
                  IF c.err # NONE
                  THEN [err |-> c.err, defs |-> <<f.def>> \o Tail(defs), crits |-> <<>>]
                  ELSE [err |-> r.err, defs |-> <<f.def>> \o r.defs,
                        crits |-> IF r.err # NONE THEN <<>> ELSE <<c.crit>> \o r.crits]
             Compile(f) ==
                  Collect(f,
                          IF f.err # NONE THEN [err |-> f.err, crit |-> EmptyCriterion]
                          ELSE filter_sql_query(f.def, design, attrs),
                          CompileFilters(Tail(defs), design, attrs))
         IN  Compile(MetricsLayerFilter(Head(defs), design, attrs))


\* --------------------------------------------------------------- statements
\* A SQL statement: WITH list, SELECT list, FROM, JOINs, WHERE, GROUP BY,
\* HAVING, ORDER BY and whether the text ends with ';'.
Stmt(kind, with, select, from, joins, where, group_by, having, order_by, semicolon) ==
    [kind |-> kind, with |-> with, select |-> select, from |-> from, joins |-> joins,
     where |-> where, group_by |-> group_by, having |-> having, order_by |-> order_by,
     semicolon |-> semicolon]

\* a table of a FROM or JOIN: a view of the project or a CTE of the statement
\* (date_spine, base, subquery_<metric>, aggregated_<metric>)
TableRef(kind, name) == [kind |-> kind, name |-> name]
NoTable == TableRef(NONE, NONE)

NoStmt == Stmt(NONE, <<>>, <<>>, NoTable, <<>>, <<>>, <<>>, <<>>, <<>>, FALSE)

\* one item of a SELECT list: <expr> as <alias>; aggregated tells whether a
\* measure is wrapped in its aggregate, source is the table a bare column is read from
SelectItem(expr, as, aggregated, source) ==
    [expr |-> expr, as |-> as, aggregated |-> aggregated, source |-> source]

\* the base view of a design: the home view of the first metric, or of the
\* first dimension when there is no metric
base_view_name(metrics, dimensions) ==
    IF Len(metrics) > 0 THEN ProjectFields[metrics[1]].view
    ELSE IF Len(dimensions) > 0 THEN ProjectFields[dimensions[1]].view
    ELSE NONE

\* MetricsLayerQuery.get_query: the single-query generator.
\* [err, sql, where, having]: where / having are the caller's filter
\* dictionaries as the generator leaves them.
MetricsLayerQuery_get_query(definition, design, semicolon, attrs) ==
    LET dims == definition.dimensions
        mets == definition.metrics
        select ==
            [i \in 1..Len(dims) |->
                SelectItem(sql_query(dims[i], design.query_type, attrs), alias(dims[i], attrs), FALSE,
                           TableRef("view", ProjectFields[dims[i]].view))]
            \o [i \in 1..Len(mets) |->
                SelectItem(sql_query(mets[i], design.query_type, attrs), alias(mets[i], attrs),
                           ~design.no_group_by, TableRef("view", ProjectFields[mets[i]].view))]
        group_by == IF design.no_group_by THEN <<>>
                    ELSE [i \in 1..Len(dims) |-> sql_query(dims[i], design.query_type, attrs)]
        order_by == IF /\ Len(mets) > 0 /\ ~design.no_group_by
                       /\ design.query_type \in {"SNOWFLAKE", "REDSHIFT"}
                    THEN <<alias(mets[1], attrs)>> ELSE <<>>
        Build(w, h) ==
            IF w.err # NONE
            THEN [err |-> w.err, sql |-> NoStmt, where |-> w.defs, having |-> definition.having]
            ELSE IF h.err # NONE
            THEN [err |-> h.err, sql |-> NoStmt, where |-> w.defs, having |-> h.defs]
            ELSE [err |-> NONE,
                  sql |-> Stmt("single", <<>>, select,
                               TableRef("view", base_view_name(mets, dims)), <<>>,
                               w.crits, group_by, h.crits, order_by,
                               semicolon /\ design.query_type # "DRUID"),
                  where |-> w.defs, having |-> h.defs]
    IN  Build(CompileFilters(definition.where, design, attrs),
              CompileFilters(definition.having, design, attrs))


\* ------------------------------------------------------- cumulative planner
RECURSIVE Dedup(_)
\* design.deduplicate_fields: first occurrences, in order
Dedup(seq) ==
    IF Len(seq) = 0 THEN <<>>
    ELSE LET init == Dedup(SubSeq(seq, 1, Len(seq) - 1))
             last == seq[Len(seq)]
         IN  IF last \in Range(init) THEN init ELSE Append(init, last)

RECURSIVE SeparateLoop(_)
\* the loop of separate_metrics over the names of metrics + having
SeparateLoop(names) ==
    IF Len(names) = 0 THEN [cumulative |-> <<>>, non_cumulative |-> <<>>]
    ELSE LET rest == SeparateLoop(Tail(names))
             n == Head(names)
             f == ProjectFields[n]
             here ==
                IF is_cumulative(n)
                THEN IF f.type = "number"
                     THEN [cumulative |-> SelectSeq(f.refs, LAMBDA r : is_cumulative(r)),
                           non_cumulative |-> SelectSeq(f.refs, LAMBDA r : ~is_cumulative(r))]
                     ELSE [cumulative |-> <<n>>, non_cumulative |-> <<>>]
                ELSE [cumulative |-> <<>>, non_cumulative |-> <<n>>]
         IN  [cumulative |-> here.cumulative \o rest.cumulative,
              non_cumulative |-> here.non_cumulative \o rest.non_cumulative]

\* CumulativeMetricsQuery.separate_metrics
separate_metrics(metrics, having) ==
    LET r == SeparateLoop(metrics \o [k \in 1..Len(having) |-> having[k].field])
    IN  [cumulative |-> Dedup(r.cumulative), non_cumulative |-> Dedup(r.non_cumulative)]

\* a date spine for Postgres as well
CumulativeDialects_with_postgres == {"SNOWFLAKE", "REDSHIFT", "BIGQUERY", "POSTGRES"}

\* CumulativeMetricsQuery.date_spine / current_date: the supported dialects
CumulativeDialects == {"SNOWFLAKE", "REDSHIFT", "BIGQUERY"}

\* _get_default_date: the <default_date>_date field of the view of the
\* measure a cumulative metric aggregates; NONE when the view has none
get_default_date(cumulative_metric) ==
    LET view == ProjectFields[ProjectFields[cumulative_metric].measure].view
        found == {n \in DateFieldNames :
                     /\ ProjectFields[n].view = view
                     /\ ProjectFields[n].name = view_default_date(view)
                     /\ ProjectFields[n].dimension_group = "date"}
    IN  IF found = {} THEN NONE ELSE CHOOSE n \in found : TRUE

\* a test that takes no field for a default date
is_default_date_never(name, cumulative_metrics) == FALSE

\* _is_default_date: the field is (a timeframe of) the default date of some
\* cumulative metric of the query
is_default_date(name, cumulative_metrics) ==
    \E k \in 1..Len(cumulative_metrics) :
        LET d == get_default_date(cumulative_metrics[k])
        IN  /\ d # NONE
            /\ ProjectFields[d].view = ProjectFields[name].view
            /\ ProjectFields[d].name = ProjectFields[name].name

\* names of the CTEs: date_spine, subquery_<metric>, aggregated_<metric>, base
Cte(prefix, metric) == [prefix |-> prefix, metric |-> metric]

RECURSIVE WriteBack(_, _, _)
\* the dictionaries of self.where after a sub-list of them (those kept by
\* keep) went through a generator: the kept ones are the same objects
WriteBack(where, keep, changed) ==
    IF Len(where) = 0 THEN <<>>
    ELSE IF keep[1]
         THEN <<Head(changed)>> \o WriteBack(Tail(where), Tail(keep), Tail(changed))
         ELSE <<Head(where)>> \o WriteBack(Tail(where), Tail(keep), changed)

\* CumulativeMetricsQuery._subquery: the single-query generator run on the
\* shared design.  [err, sql, where, design]: where are the dictionaries of
\* self.where afterwards, design is the design as the call leaves it.
subquery(design, where, keep, metrics, dimensions, no_group_by, attrs) ==
    LET kept == [k \in 1..Cardinality({x \in 1..Len(where) : keep[x]}) |->
                    where[CHOOSE x \in 1..Len(where) :
                            keep[x] /\ Cardinality({y \in 1..x : keep[y]}) = k]]
        field_lookup == design.field_lookup
        inner_design == [design EXCEPT
                            !.field_lookup =
                                {n \in field_lookup : ProjectFields[n].field_type # "measure"}
                                \cup Range(metrics),
                            !.no_group_by = no_group_by]
        Leave(q) ==
            IF q.err # NONE
            THEN [err |-> q.err, sql |-> NoStmt, where |-> WriteBack(where, keep, q.where),
                  design |-> inner_design]
            ELSE [err |-> NONE, sql |-> q.sql, where |-> WriteBack(where, keep, q.where),
                  design |-> [design EXCEPT !.no_group_by = FALSE]]
    IN  Leave(MetricsLayerQuery_get_query(
                 [metrics |-> metrics, dimensions |-> dimensions, where |-> kept, having |-> <<>>],
                 inner_design, FALSE, attrs))


\* --------------------------------------------- a compilation in progress
\* _get_select_columns between its lines 280 and 282: the field of the
\* iteration, its field_sql and the table the column is read from
Pending(name, expr, source) == [name |-> name, expr |-> expr, source |-> source]
NoPending == Pending(NONE, NoSql, NoTable)

\* The frame of one get_query call: the resolver's request fields, the
\* request-scoped design, the planner's locals and its position (pc).
Frame(pc, err, req, design, semicolon, generator) ==
    [pc |-> pc, err |-> err, generator |-> generator,
     metrics |-> req.metrics, dimensions |-> req.dimensions,
     where |-> req.where, having |-> req.having,
     design |-> design, semicolon |-> semicolon,
     cumulative_metrics |-> <<>>, non_cumulative_metrics |-> <<>>,
     i |-> 1, j |-> 1, k |-> 1, saved |-> NONE,
     part |-> <<>>, base |-> NoTable, pending |-> NoPending,
     merged_metrics |-> <<>>, query_metrics |-> <<>>, query_dimensions |-> <<>>,
     query_where |-> <<>>, explore_metrics |-> <<>>, explore_dimensions |-> <<>>,
     explore_where |-> <<>>, assigned |-> {}, step |-> NONE,
     with |-> <<>>, agg |-> NoStmt, sql |-> NoStmt]

\* query_where / explore_where of a resolver whose where list is where: an
\* entry that is one of the caller's dictionaries (src > 0) is that
\* dictionary, as whatever was called since has left it; a copy stays
Followed(dict, where) ==
    [k \in 1..Len(dict) |->
        [dict[k] EXCEPT !.items =
            [x \in 1..Len(dict[k].items) |->
                IF dict[k].items[x].src > 0
                THEN [dict[k].items[x] EXCEPT !.def = where[dict[k].items[x].src]]
                ELSE dict[k].items[x]]]]

\* a new frame of a resolver that keeps the attributes the derive_sub_queries
\* methods assigned to it (assigned: the names of those it has by now); the
\* lists of query_where and explore_where hold the dictionaries of t.where
KeepAttributes(t, old) ==
    [t EXCEPT !.merged_metrics = old.merged_metrics, !.query_metrics = old.query_metrics,
              !.query_dimensions = old.query_dimensions,
              !.query_where = Followed(old.query_where, t.where),
              !.explore_metrics = old.explore_metrics,
              !.explore_dimensions = old.explore_dimensions,
              !.explore_where = Followed(old.explore_where, t.where),
              !.assigned = old.assigned]

\* the resolver after a call that assigned r.assigned of its attributes: an
\* attribute the call did not get to keeps the value it had
Assign(t, r) ==
    [t EXCEPT !.merged_metrics = IF "merged_metrics" \in r.assigned THEN r.merged_metrics ELSE @,
              !.query_metrics = IF "query_metrics" \in r.assigned THEN r.query_metrics ELSE @,
              !.query_dimensions =
                  IF "query_dimensions" \in r.assigned THEN r.query_dimensions ELSE @,
              !.query_where = IF "query_where" \in r.assigned THEN r.query_where ELSE @,
              !.explore_metrics = IF "explore_metrics" \in r.assigned THEN r.query_metrics ELSE @,
              !.explore_dimensions =
                  IF "explore_dimensions" \in r.assigned THEN r.query_dimensions ELSE @,
              !.explore_where = IF "explore_where" \in r.assigned THEN r.query_where ELSE @,
              !.assigned = @ \cup r.assigned]

\* a raised exception ends the call where it is: nothing is restored
Raise(t, err) == [t EXCEPT !.pc = "raised", !.err = err]

DateSpine == TableRef("date_spine", NONE)
date_spine_reference == [field |-> "date_spine.date", dialect |-> "ANY", timeframe |-> NONE]

\* one entry of a WITH list
CteEntry(table, body) == [table |-> table, body |-> body]

\* a JOIN: the joined table, the join type, the columns of its ON criterion
\* and the text they are put in: joined by " and ", or "1=1" for none
Join(table, type, on) ==
    [table |-> table, type |-> type, on |-> on,
     raw |-> IF Len(on) = 0 THEN "1=1" ELSE "and"]

\* get_query lines 37-44: separate_metrics, then the date spine CTE
CumStart(t) ==
    LET Separated(sep) ==
            IF t.design.query_type \notin CumulativeDialects
            THEN Raise([t EXCEPT !.cumulative_metrics = sep.cumulative,
                                 !.non_cumulative_metrics = sep.non_cumulative],
                       "NotImplementedError")
            ELSE [t EXCEPT !.cumulative_metrics = sep.cumulative,
                           !.non_cumulative_metrics = sep.non_cumulative,
                           !.with = <<CteEntry(DateSpine, NoStmt)>>,
                           !.i = 1,
                           !.pc = IF Len(sep.cumulative) > 0 THEN "cumulative_subquery"
                                  ELSE "non_cumulative_subquery"]
    IN  Separated(separate_metrics(t.metrics, t.having))

\* cumulative_subquery of the i-th cumulative metric, appended to the WITH list
CumSubquery(t, attrs) ==
    LET cumulative_metric == t.cumulative_metrics[t.i]
        reference_metric == ProjectFields[cumulative_metric].measure
        date_field == get_default_date(cumulative_metric)
        dimension_ids ==
            IF \E k \in 1..Len(t.dimensions) :
                   /\ ProjectFields[t.dimensions[k]].name = ProjectFields[date_field].name
                   /\ ProjectFields[t.dimensions[k]].view = ProjectFields[date_field].view
            THEN t.dimensions ELSE Append(t.dimensions, date_field)
        keep == [k \in 1..Len(t.where) |->
                    ~is_default_date(t.where[k].field, t.cumulative_metrics)]
        With(q) ==
            IF q.err # NONE
            THEN Raise([t EXCEPT !.where = q.where, !.design = q.design], q.err)
            ELSE [t EXCEPT !.where = q.where, !.design = q.design,
                           !.with = Append(@, CteEntry(TableRef("subquery", cumulative_metric),
                                                       q.sql)),
                           !.pc = "aggregate_from"]
    IN  IF date_field = NONE THEN Raise(t, "AccessDeniedOrDoesNotExistException")
        ELSE With(subquery(t.design, t.where, keep, <<reference_metric>>, dimension_ids,
                           TRUE, attrs))

\* aggregate_cumulative_subquery lines 169-183: FROM the date spine, JOIN
\* the metric's subquery on its date; line 178 reads the date field's alias
CumAggregateFrom(t, attrs) ==
    LET cumulative_metric == t.cumulative_metrics[t.i]
        date_field == get_default_date(cumulative_metric)
        less_than_now ==
            Join(TableRef("subquery", cumulative_metric), "inner", <<alias(date_field, attrs)>>)
    IN  [t EXCEPT !.agg = Stmt("aggregated", <<>>, <<>>, DateSpine, <<less_than_now>>,
                               <<>>, <<>>, <<>>, <<>>, FALSE),
                  !.k = 1, !.pc = "aggregate_select"]

\* lines 186-195, one iteration of the loop over the referenced metric and
\* the dimensions: line 195 reads the field's alias.  After the loop lines
\* 197-199 add the WHERE on the date spine
CumAggregateSelect(t, attrs) ==
    LET cumulative_metric == t.cumulative_metrics[t.i]
        names == <<ProjectFields[cumulative_metric].measure>> \o t.dimensions
        item(name) ==
            SelectItem(IF is_default_date(name, t.cumulative_metrics)
                       THEN date_spine_reference
                       ELSE [field |-> name, dialect |-> "ALIAS", timeframe |-> NONE],
                       alias(name, attrs), FALSE,
                       TableRef("subquery", cumulative_metric))
    IN  IF t.k > Len(names)
        THEN [t EXCEPT !.agg.where = <<LiteralValueCriterion>>,
                       !.k = 1, !.j = 1, !.pc = "aggregate_where"]
        ELSE [t EXCEPT !.agg.select = Append(@, item(names[t.k])), !.k = @ + 1]

\* the loop head of lines 202-204, and lines 205-206 for a filter on the
\* default date: the date field's dimension_group is read and kept.
\* After the loop (lines 217-222) the statement is appended to the WITH list.
\* [t, attrs]
CumAggregateWhere(t, attrs) ==
    LET cumulative_metric == t.cumulative_metrics[t.i]
        date_field == get_default_date(cumulative_metric)
    IN  IF t.j > Len(t.where)
        THEN LET done == [t.agg EXCEPT
                             !.group_by = <<date_spine_reference>>,
                             !.having = IF Len(@) > 0 THEN <<Criterion_all(@)>> ELSE <<>>]
             IN  [t |-> [t EXCEPT
                            !.with = Append(@, CteEntry(TableRef("aggregated", cumulative_metric), done)),
                            !.agg = NoStmt,
                            !.i = @ + 1,
                            !.pc = IF t.i < Len(t.cumulative_metrics) THEN "cumulative_subquery"
                                   ELSE "non_cumulative_subquery"],
                  attrs |-> attrs]
        ELSE IF is_default_date(t.where[t.j].field, t.cumulative_metrics)
        THEN [t |-> [t EXCEPT !.saved = attrs[date_field], !.pc = "aggregate_overwrite"],
              attrs |-> attrs]
        ELSE [t |-> [t EXCEPT !.j = @ + 1], attrs |-> attrs]

\* line 207: the date field's dimension_group is overwritten with that of
\* the filter's field.  [t, attrs]
CumAggregateOverwrite(t, attrs) ==
    LET date_field == get_default_date(t.cumulative_metrics[t.i])
    IN  [t |-> [t EXCEPT !.pc = "aggregate_filter"],
         attrs |-> [attrs EXCEPT ![date_field] = attrs[t.where[t.j].field]]]

\* lines 208-213: the filter on the date spine, built from a copy of the
\* caller's dictionary, rendered with the overwritten dimension_group
CumAggregateFilter(t, attrs) ==
    LET date_field == get_default_date(t.cumulative_metrics[t.i])
        date_having == WithQueryType([t.where[t.j] EXCEPT !.keys = @ \cup {"field"},
                                                          !.field = date_field],
                                     t.design.query_type)
        date_spine_sql == [field |-> "date_spine.date",
                           dialect |-> DialectFamily(t.design.query_type),
                           timeframe |-> attrs[date_field]]
        Having(f) ==
            IF f.err # NONE THEN Raise(t, f.err)
            ELSE [t EXCEPT !.agg.having =
                               Append(@, Leaf(date_spine_sql, f.def.expression, f.def.value)),
                           !.pc = "aggregate_restore"]
    IN  Having(MetricsLayerFilter(date_having, NoDesign, attrs))

\* line 214: the saved dimension_group is written back.  [t, attrs]
CumAggregateRestore(t, attrs) ==
    LET date_field == get_default_date(t.cumulative_metrics[t.i])
    IN  [t |-> [t EXCEPT !.saved = NONE, !.j = @ + 1, !.pc = "aggregate_where"],
         attrs |-> [attrs EXCEPT ![date_field] = t.saved]]


\* a base CTE put at the head of the WITH list
CumNonCumulativeSubquery_base_first(t, attrs) ==
    LET keep == [k \in 1..Len(t.where) |-> TRUE]
        With(q) ==
            IF q.err # NONE
            THEN Raise([t EXCEPT !.where = q.where, !.design = q.design], q.err)
            ELSE [t EXCEPT !.where = q.where, !.design = q.design,
                           !.with = <<CteEntry(TableRef("base", NONE), q.sql)>> \o @,
                           !.pc = "final"]
    IN  IF Len(t.non_cumulative_metrics) = 0 THEN [t EXCEPT !.pc = "final"]
        ELSE With(subquery(t.design, t.where, keep, t.non_cumulative_metrics, t.dimensions,
                           FALSE, attrs))

\* non_cumulative_subquery (get_query lines 52-54): the base CTE
CumNonCumulativeSubquery(t, attrs) ==
    LET keep == [k \in 1..Len(t.where) |-> TRUE]
        With(q) ==
            IF q.err # NONE
            THEN Raise([t EXCEPT !.where = q.where, !.design = q.design], q.err)
            ELSE [t EXCEPT !.where = q.where, !.design = q.design,
                           !.with = Append(@, CteEntry(TableRef("base", NONE), q.sql)),
                           !.pc = "final"]
    IN  IF Len(t.non_cumulative_metrics) = 0 THEN [t EXCEPT !.pc = "final"]
        ELSE With(subquery(t.design, t.where, keep, t.non_cumulative_metrics, t.dimensions,
                           FALSE, attrs))

\* the join of a CTE finished: appended to the statement, the next
\* cumulative metric is at its first dimension
JoinAppended(t, cumulative_metric) ==
    [t EXCEPT !.agg.joins = Append(@, Join(TableRef("aggregated", cumulative_metric), "left",
                                           t.part)),
              !.part = <<>>, !.k = 1, !.i = @ + 1]

\* a join on the dimensions that are no dates
derive_join_without_dates(t, cumulative_metric, attrs) ==
    IF t.k > Len(t.dimensions) THEN JoinAppended(t, cumulative_metric)
    ELSE IF t.dimensions[t.k] \in DateFieldNames THEN [t EXCEPT !.k = @ + 1]
    ELSE [t EXCEPT !.part = Append(@, alias(t.dimensions[t.k], attrs)), !.k = @ + 1]

\* _derive_join, one iteration of the loop of lines 252-255: line 254 reads
\* the alias of a dimension; after the loop (lines 257-263, get_query line
\* 67) the CTE of the cumulative metric is joined on every dimension
derive_join(t, cumulative_metric, attrs) ==
    IF t.k > Len(t.dimensions) THEN JoinAppended(t, cumulative_metric)
    ELSE [t EXCEPT !.part = Append(@, alias(t.dimensions[t.k], attrs)), !.k = @ + 1]

\* lines 268-280 for the field of one iteration: its field_sql, read from
\* the table it comes from; line 275 reads the alias of a field that is
\* not cumulative
field_sql(n, base, attrs) ==
    IF ProjectFields[n].type = "number" /\ is_cumulative(n)
    THEN Pending(n, [field |-> n, dialect |-> "ALIAS", timeframe |-> NONE], NoTable)
    ELSE IF is_cumulative(n)
    THEN Pending(n, [field |-> ProjectFields[n].measure, dialect |-> "ALIAS", timeframe |-> NONE],
                 TableRef("aggregated", n))
    ELSE Pending(n, [field |-> n, dialect |-> "ALIAS", timeframe |-> alias(n, attrs).timeframe],
                 base)

\* _get_select_columns, lines 267-280 of one iteration of the loop over the
\* dimensions, then the metrics
get_select_columns(t, base, attrs) ==
    [t EXCEPT !.pending = field_sql((t.dimensions \o t.metrics)[t.k], base, attrs),
              !.pc = "final_alias"]

\* line 282 of the iteration: the alias of the field is read and the column
\* appended to the select list
CumSelectAlias(t, attrs) ==
    [t EXCEPT !.agg.select = Append(@, SelectItem(t.pending.expr, alias(t.pending.name, attrs),
                                                  FALSE, t.pending.source)),
              !.pending = NoPending, !.k = @ + 1, !.pc = "final_select"]

\* get_where_from_having: the having filters as criteria on the aliases
get_where_from_having(having) ==
    [k \in 1..Len(having) |->
        Leaf([field |-> having[k].field, dialect |-> "ALIAS", timeframe |-> NONE],
             having[k].expression, having[k].value)]

\* get_query lines 78-79: if semicolon: sql += ";"
EndsWithSemicolon(semicolon) == semicolon

\* a final SELECT that always reads FROM the first aggregated CTE
CumFinal_from_first_aggregated(t, attrs) ==
    IF Len(t.cumulative_metrics) = 0 THEN Raise(t, "IndexError")
    ELSE [t EXCEPT !.base = TableRef("aggregated", t.cumulative_metrics[1]),
                   !.agg = Stmt("cumulative", t.with, <<>>,
                                TableRef("aggregated", t.cumulative_metrics[1]),
                                <<>>, <<>>, <<>>, <<>>, <<>>, FALSE),
                   !.i = 2, !.k = 1, !.part = <<>>, !.pc = "final_join"]

\* get_query lines 56-63: the table the final SELECT reads FROM, and the
\* first cumulative metric whose CTE is joined to it
CumFinal(t, attrs) ==
    LET has_non_cumulative_metrics == Len(t.non_cumulative_metrics) > 0
        base == IF has_non_cumulative_metrics THEN TableRef("base", NONE)
                ELSE TableRef("aggregated", t.cumulative_metrics[1])
        cumulative_idx == IF has_non_cumulative_metrics THEN 0 ELSE 1
    IN  IF ~has_non_cumulative_metrics /\ Len(t.cumulative_metrics) = 0
        THEN Raise(t, "IndexError")
        ELSE [t EXCEPT !.base = base,
                       !.agg = Stmt("cumulative", t.with, <<>>, base, <<>>, <<>>, <<>>, <<>>,
                                    <<>>, FALSE),
                       !.i = cumulative_idx + 1, !.k = 1, !.part = <<>>, !.pc = "final_join"]

\* get_query lines 65-67: the loop over the cumulative metrics joined to
\* the base, then the select list is begun (line 69)
CumJoin(t, attrs) ==
    IF t.i > Len(t.cumulative_metrics)
    THEN [t EXCEPT !.i = 1, !.k = 1, !.pc = "final_select"]
    ELSE derive_join(t, t.cumulative_metrics[t.i], attrs)

\* get_query lines 70-80 once the select list is complete: the WHERE of
\* the having filters, the limit and the semicolon
CumReturn(t) ==
    [t EXCEPT !.sql = [t.agg EXCEPT
                          !.where = IF Len(t.having) > 0
                                    THEN <<Criterion_all(get_where_from_having(t.having))>>
                                    ELSE <<>>,
                          !.semicolon = EndsWithSemicolon(t.semicolon)],
              !.agg = NoStmt, !.with = <<>>, !.base = NoTable, !.i = 1, !.k = 1,
              !.pc = "returned"]

\* _get_select_columns (get_query line 69): the loop of lines 267-282
CumSelect(t, attrs) ==
    IF t.k > Len(t.dimensions) + Len(t.metrics) THEN CumReturn(t)
    ELSE get_select_columns(t, t.base, attrs)

\* MetricsLayerQuery(query_definition, design).get_query(semicolon) on the
\* resolver's own where / having lists
SingleGenerate(t, attrs) ==
    LET Return(q) ==
            IF q.err # NONE
            THEN Raise([t EXCEPT !.where = q.where, !.having = q.having], q.err)
            ELSE [t EXCEPT !.where = q.where, !.having = q.having, !.sql = q.sql,
                           !.pc = "returned"]
    IN  Return(MetricsLayerQuery_get_query(
                   [metrics |-> t.metrics, dimensions |-> t.dimensions,
                    where |-> t.where, having |-> t.having],
                   t.design, t.semicolon, attrs))

\* one step of a get_query call.  [t, attrs]
Step(t, attrs) ==
    CASE t.pc = "get_query" ->
            [t |-> IF t.generator = "cumulative" THEN CumStart(t) ELSE SingleGenerate(t, attrs),
             attrs |-> attrs]
      [] t.pc = "cumulative_subquery" -> [t |-> CumSubquery(t, attrs), attrs |-> attrs]
      [] t.pc = "aggregate_from" -> [t |-> CumAggregateFrom(t, attrs), attrs |-> attrs]
      [] t.pc = "aggregate_select" -> [t |-> CumAggregateSelect(t, attrs), attrs |-> attrs]
      [] t.pc = "aggregate_where" -> CumAggregateWhere(t, attrs)
      [] t.pc = "aggregate_overwrite" -> CumAggregateOverwrite(t, attrs)
      [] t.pc = "aggregate_filter" -> [t |-> CumAggregateFilter(t, attrs), attrs |-> attrs]
      [] t.pc = "aggregate_restore" -> CumAggregateRestore(t, attrs)
      [] t.pc = "non_cumulative_subquery" ->
            [t |-> CumNonCumulativeSubquery(t, attrs), attrs |-> attrs]
      [] t.pc = "final" -> [t |-> CumFinal(t, attrs), attrs |-> attrs]
      [] t.pc = "final_join" -> [t |-> CumJoin(t, attrs), attrs |-> attrs]
      [] t.pc = "final_select" -> [t |-> CumSelect(t, attrs), attrs |-> attrs]
      [] t.pc = "final_alias" -> [t |-> CumSelectAlias(t, attrs), attrs |-> attrs]
      [] OTHER -> [t |-> t, attrs |-> attrs]

Running(t) == t.pc \notin {"idle", "resolved", "returned", "raised"}

RECURSIVE Run(_, _)
\* a get_query call run to its end without interruption.  [t, attrs]
Run(t, attrs) ==
    IF Running(t) THEN LET Continue(n) == Run(n.t, n.attrs) IN Continue(Step(t, attrs))
    ELSE [t |-> t, attrs |-> attrs]


\* ------------------------------------------------------ merged-result path
\* A defaultdict(list) in insertion order: a sequence of [key, items]
Entry(key, items) == [key |-> key, items |-> items]
KeyIndex(dict, key) ==
    IF \E k \in 1..Len(dict) : dict[k].key = key
    THEN CHOOSE k \in 1..Len(dict) : dict[k].key = key ELSE 0
Get(dict, key) == IF KeyIndex(dict, key) = 0 THEN <<>> ELSE dict[KeyIndex(dict, key)].items
Put(dict, key, item) ==
    IF KeyIndex(dict, key) = 0 THEN Append(dict, Entry(key, <<item>>))
    ELSE [dict EXCEPT ![KeyIndex(dict, key)].items = Append(@, item)]

\* dict[key] read: a defaultdict inserts the empty list under a missing key
Touch(dict, key) == IF KeyIndex(dict, key) = 0 THEN Append(dict, Entry(key, <<>>)) ELSE dict

Pair(key, item) == [key |-> key, item |-> item]

RECURSIVE PutPairs(_, _)
\* dict[pair.key].append(pair.item) for a list of pairs, in order
PutPairs(dict, pairs) ==
    IF Len(pairs) = 0 THEN dict
    ELSE PutPairs(Put(dict, Head(pairs).key, Head(pairs).item), Tail(pairs))

RECURSIVE Concat(_)
Concat(seqs) == IF Len(seqs) = 0 THEN <<>> ELSE Head(seqs) \o Concat(Tail(seqs))

\* canon_date.replace(".", "_"): the text of a canon date, the dot replaced
CanonText(cd) ==
    CASE cd = [view |-> "orders", name |-> "order"] -> "orders_order"
      [] cd = [view |-> "sessions", name |-> "session"] -> "sessions_session"
      [] cd = [view |-> "web", name |-> "site_visit"] -> "web_site_visit"
      [] cd = [view |-> "web_site", name |-> "visit"] -> "web_site_visit"
      [] OTHER -> "other"

\* the key of a sub-query: f"{canon_date}__{join_group_hash}"
BucketKey(name) ==
    [canon_date |-> CanonText(canon_date(name)),
     hash |-> join_graph_hash(ProjectFields[name].view)]

\* line 140, field.id() in f.id(): the id "<view>.<name>" of a occurs
\* within the id of b, as a piece of text
IdWithin(a, b) ==
    \/ a = b
    \/ <<a, b>> \in {<<"total_revenue", "total_revenue_net">>}

RECURSIVE PutMetrics(_, _, _)
\* derive_sub_queries3 lines 123-144: the metrics into their buckets; the
\* secondary metrics (check) only when not in the bucket already.  The loop
\* ends at a metric without canon_date (None.replace raises).
PutMetrics(query_metrics, names, check) ==
    IF Len(names) = 0 \/ canon_date(Head(names)) = NoKey THEN query_metrics
    ELSE LET n == Head(names)
             key == BucketKey(n)
             already_in_query == \E f \in Range(Get(query_metrics, key)) : IdWithin(n, f)
         IN  PutMetrics(IF check /\ already_in_query THEN query_metrics
                        ELSE Put(query_metrics, key, n),
                        Tail(names), check)

\* lines 113-146: the buckets of the metrics of a request.  The measures the
\* merged metrics reference are appended first, each as often as it is
\* referenced; a metric that is not a merged result is appended after them
\* unless its id is within the id of a metric of its bucket.
MetricBuckets(metrics) ==
    LET merged_metrics == SelectSeq(metrics, is_merged_result)
        secondary_metrics == SelectSeq(metrics, LAMBDA m : ~is_merged_result(m))
        ref_fields == Concat([k \in 1..Len(merged_metrics) |-> ProjectFields[merged_metrics[k]].refs])
    IN  IF \E k \in 1..Len(ref_fields) : canon_date(ref_fields[k]) = NoKey
        THEN PutMetrics(<<>>, ref_fields, FALSE)
        ELSE PutMetrics(PutMetrics(<<>>, ref_fields, FALSE), secondary_metrics, TRUE)

\* lines 148-165: every bucket's canon_date maps to the canon dates of the others
CanonDateMapping(query_metrics) ==
    Concat([k \in 1..Len(query_metrics) |->
        LET others == SelectSeq([o \in 1..Len(query_metrics) |-> o], LAMBDA o : o # k)
        IN  [x \in 1..Len(others) |->
                Pair(canon_date(query_metrics[k].items[1]),
                      [field |-> canon_date(query_metrics[others[x]].items[1]),
                       join_hash |-> query_metrics[others[x]].key])]])

\* lines 169-188: the mappings of the model, from each field to the others
\* of its mapping whose join component has a bucket
ModelMapping(query_metrics) ==
    Concat([m \in 1..Len(Mappings) |->
      Concat([f \in 1..Len(Mappings[m]) |->
        Concat([g \in 1..Len(Mappings[m]) |->
          IF Mappings[m][g] = Mappings[m][f] THEN <<>>
          ELSE LET hits == SelectSeq([o \in 1..Len(query_metrics) |-> o],
                               LAMBDA o : query_metrics[o].key.hash
                                            = join_graph_hash(ProjectFields[Mappings[m][g]].view))
               IN  [x \in 1..Len(hits) |->
                       Pair(FieldKey(Mappings[m][f]),
                             [field |-> FieldKey(Mappings[m][g]),
                              join_hash |-> query_metrics[hits[x]].key])]])])])

\* line 173: a mapping may hold dimensions only
InvalidMapping ==
    \E m \in 1..Len(Mappings) : \E f \in 1..Len(Mappings[m]) :
        ProjectFields[Mappings[m][f]].field_type \in {"dimension_group", "measure"}

\* the appends of a loop over mapping entries that ends at the first entry
\* whose field the project does not have (project.get_field raises)
FoundBefore(pairs) ==
    IF \E x \in 1..Len(pairs) : pairs[x].item = NONE
    THEN SubSeq(pairs, 1, (CHOOSE x \in 1..Len(pairs) :
                              /\ pairs[x].item = NONE
                              /\ \A y \in 1..(x - 1) : pairs[y].item # NONE) - 1)
    ELSE pairs

RECURSIVE DimensionBuckets(_, _, _, _, _)
\* the loop of lines 211-223 over the buckets from the b-th: [err, pairs],
\* the appends made, also those made before an error
DimensionBuckets(b, d, query_metrics, mapped, mapped_plain) ==
    IF b > Len(query_metrics) THEN [err |-> NONE, pairs |-> <<>>]
    ELSE LET Prepend(pairs, rest) == [err |-> rest.err, pairs |-> pairs \o rest.pairs]
         IN  IF query_metrics[b].key.hash = join_graph_hash(ProjectFields[d].view)
             THEN Prepend(<<Pair(query_metrics[b].key, d)>>,
                          DimensionBuckets(b + 1, d, query_metrics, mapped, mapped_plain))
             ELSE IF ~mapped THEN [err |-> "ValueError", pairs |-> <<>>]
             ELSE IF \E x \in 1..Len(mapped_plain) : mapped_plain[x].item = NONE
             THEN [err |-> "AccessDeniedOrDoesNotExistException",
                   pairs |-> FoundBefore(mapped_plain)]
             ELSE Prepend(mapped_plain,
                          DimensionBuckets(b + 1, d, query_metrics, mapped, mapped_plain))

\* lines 194-223 for one dimension: [err, pairs], the (bucket, field) appends
\* in the order they are made, also those made before an error
DimensionPairs(d, query_metrics, dimension_mapping, attrs) ==
    LET hash == join_graph_hash(ProjectFields[d].view)
        field_key == FieldKey(d)
        canon_dates == {canon_date(query_metrics[k].items[1]) : k \in 1..Len(query_metrics)}
        infos == Get(dimension_mapping, field_key)
        mapped_dates == [x \in 1..Len(infos) |->
                            Pair(infos[x].join_hash, get_field_by_key(infos[x].field, attrs[d]))]
        mapped_plain == [x \in 1..Len(infos) |->
                            Pair(infos[x].join_hash, get_field_plain(infos[x].field))]
        own == <<Pair([canon_date |-> CanonText(field_key), hash |-> hash], d)>>
    IN  IF field_key \in canon_dates
        THEN IF \E x \in 1..Len(infos) : mapped_dates[x].item = NONE
             THEN [err |-> "AccessDeniedOrDoesNotExistException",
                   pairs |-> own \o FoundBefore(mapped_dates)]
             ELSE [err |-> NONE, pairs |-> own \o mapped_dates]
        ELSE DimensionBuckets(1, d, query_metrics,
                              KeyIndex(dimension_mapping, field_key) # 0, mapped_plain)


RECURSIVE DimensionLoop(_, _, _, _, _)
\* the loop of lines 194-223 over the dimensions: [err, query_dimensions]
DimensionLoop(dimensions, query_dimensions, query_metrics, dimension_mapping, attrs) ==
    IF Len(dimensions) = 0 THEN [err |-> NONE, query_dimensions |-> query_dimensions]
    ELSE LET Appended(p) ==
                  IF p.err # NONE
                  THEN [err |-> p.err, query_dimensions |-> PutPairs(query_dimensions, p.pairs)]
                  ELSE DimensionLoop(Tail(dimensions), PutPairs(query_dimensions, p.pairs),
                                     query_metrics, dimension_mapping, attrs)
         IN  Appended(DimensionPairs(Head(dimensions), query_metrics, dimension_mapping, attrs))

RECURSIVE WhereBuckets(_, _, _, _, _, _)
\* the loop of lines 240-252 over the buckets for the k-th filter w:
\* [err, pairs], the appends made, also those made before an error.
\* A filter of the bucket's own join component is the caller's
\* dictionary itself (src = k); for any other bucket it is a copy per mapping
\* entry, renamed to the mapped field refs[x] (src = 0), and join_group_hash
\* is overwritten by the join component of the mapped field (line 251).
WhereBuckets(b, join_group_hash, k, w, query_metrics, refs) ==
    IF b > Len(query_metrics) THEN [err |-> NONE, pairs |-> <<>>]
    ELSE LET Prepend(pairs, rest) == [err |-> rest.err, pairs |-> pairs \o rest.pairs]
             Renamed(x) == Pair(query_metrics[b].key,
                                [src |-> 0, def |-> [w EXCEPT !.field = refs[x]]])
             Found == IF \E x \in 1..Len(refs) : refs[x] = NONE
                      THEN (CHOOSE x \in 1..Len(refs) :
                               refs[x] = NONE /\ \A y \in 1..(x - 1) : refs[y] # NONE) - 1
                      ELSE Len(refs)
         IN  IF query_metrics[b].key.hash = join_group_hash
             THEN Prepend(<<Pair(query_metrics[b].key, [src |-> k, def |-> w])>>,
                          WhereBuckets(b + 1, join_group_hash, k, w, query_metrics, refs))
             ELSE IF \E x \in 1..Len(refs) : refs[x] = NONE
             THEN [err |-> "AccessDeniedOrDoesNotExistException",
                   pairs |-> [x \in 1..Found |-> Renamed(x)]]
             ELSE Prepend([x \in 1..Len(refs) |-> Renamed(x)],
                          WhereBuckets(b + 1,
                                       IF Len(refs) = 0 THEN join_group_hash
                                       ELSE join_graph_hash(ProjectFields[refs[Len(refs)]].view),
                                       k, w, query_metrics, refs))

\* lines 235-252 for the k-th filter: [err, pairs]; the mapped field of a
\* mapping entry is looked up as "<field>_<dimension_group>" (line 247)
WherePairs(k, where, query_metrics, dimension_mapping, attrs) ==
    LET w == where[k]
        dimension_group == IF w.field \in DateFieldNames THEN attrs[w.field] ELSE NONE
        infos == Get(dimension_mapping, FieldKey(w.field))
    IN  \* line 236: where["field"] of a dictionary without that key
        IF "field" \notin w.keys THEN [err |-> "KeyError", pairs |-> <<>>]
        ELSE WhereBuckets(1, join_graph_hash(ProjectFields[w.field].view), k, w, query_metrics,
                          [x \in 1..Len(infos) |->
                              get_field_by_key(infos[x].field, dimension_group)])

RECURSIVE WhereLoop(_, _, _, _, _, _)
\* the loop of lines 235-252 over self.where: [err, query_where]
WhereLoop(k, where, query_where, query_metrics, dimension_mapping, attrs) ==
    IF k > Len(where) THEN [err |-> NONE, query_where |-> query_where]
    ELSE LET Appended(p) ==
                  IF p.err # NONE
                  THEN [err |-> p.err, query_where |-> PutPairs(query_where, p.pairs)]
                  ELSE WhereLoop(k + 1, where, PutPairs(query_where, p.pairs),
                                 query_metrics, dimension_mapping, attrs)
         IN  Appended(WherePairs(k, where, query_metrics, dimension_mapping, attrs))

\* the result of a derive_sub_queries method: the error it raised, the
\* attributes it assigned (assigned: their names) and their values
NoSubQueries ==
    [err |-> NONE, merged_metrics |-> <<>>, query_metrics |-> <<>>,
     query_dimensions |-> <<>>, query_where |-> <<>>, assigned |-> {}]

\* a check of the buckets that finds nothing
DifferentCanonDates_unchecked(query_metrics) == FALSE

\* lines 150-156: some bucket holds metrics of more than one canon_date
DifferentCanonDates(query_metrics) ==
    \E k \in 1..Len(query_metrics) :
        Cardinality({canon_date(f) : f \in Range(query_metrics[k].items)}) > 1

\* SQLQueryResolver.derive_sub_queries3
derive_sub_queries3(req, attrs) ==
    LET merged_metrics == SelectSeq(req.metrics, is_merged_result)
        secondary_metrics == SelectSeq(req.metrics, LAMBDA m : ~is_merged_result(m))
        ref_fields == Concat([k \in 1..Len(merged_metrics) |-> ProjectFields[merged_metrics[k]].refs])
        Derived(query_metrics, d, w) ==
            LET query_dimensions ==
                    [k \in 1..Len(d.query_dimensions) |->
                        Entry(d.query_dimensions[k].key, Dedup(d.query_dimensions[k].items))]
                \* lines 112-121 are done before anything can raise
                early == {"query_metrics", "merged_metrics"}
                Failed(err, dimensions, query_where, assigned) ==
                    [NoSubQueries EXCEPT !.err = err, !.merged_metrics = merged_metrics,
                                         !.query_metrics = query_metrics,
                                         !.query_dimensions = dimensions,
                                         !.query_where = query_where,
                                         !.assigned = assigned]
            IN
            IF \E k \in 1..Len(ref_fields) \cup 1..Len(secondary_metrics) :
                  \/ k <= Len(ref_fields) /\ canon_date(ref_fields[k]) = NoKey
                  \/ k <= Len(secondary_metrics) /\ canon_date(secondary_metrics[k]) = NoKey
            THEN Failed("AttributeError", <<>>, <<>>, early)
            ELSE IF DifferentCanonDates(query_metrics)
            THEN Failed("NotImplementedError", <<>>, <<>>, early)
            ELSE IF InvalidMapping THEN Failed("ValueError", <<>>, <<>>, early)
            ELSE IF d.err # NONE
            THEN Failed(d.err, d.query_dimensions, <<>>, early \cup {"query_dimensions"})
            ELSE IF w.err # NONE
            THEN Failed(w.err, query_dimensions, w.query_where,
                        early \cup {"query_dimensions", "query_where"})
            ELSE [err |-> NONE, merged_metrics |-> merged_metrics,
                  query_metrics |-> query_metrics,
                  query_dimensions |-> query_dimensions,
                  query_where |-> w.query_where,
                  assigned |-> early \cup {"query_dimensions", "query_where"}]
        Mapped(query_metrics, dimension_mapping) ==
            Derived(query_metrics,
                    DimensionLoop(req.dimensions, <<>>, query_metrics, dimension_mapping, attrs),
                    WhereLoop(1, req.where, <<>>, query_metrics, dimension_mapping, attrs))
        Bucketed(query_metrics) ==
            Mapped(query_metrics,
                   PutPairs(PutPairs(<<>>, CanonDateMapping(query_metrics)),
                            ModelMapping(query_metrics)))
    IN  Bucketed(MetricBuckets(req.metrics))


\* the text of a bucket key, f"{canon_date}__{join_group_hash}" with the
\* dot of the canon date replaced: the alias of the bucket's CTE
BucketAlias(key) ==
    CASE key = [canon_date |-> "orders_order", hash |-> "g1"] -> "orders_order__g1"
      [] key = [canon_date |-> "sessions_session", hash |-> "g2"] -> "sessions_session__g2"
      [] key = [canon_date |-> "web_site_visit", hash |-> "g3"] -> "web_site_visit__g3"
      [] OTHER -> "other"

\* the position of a CTE alias in sorted order
AliasRank(a) ==
    CASE a = "orders_order__g1" -> 2
      [] a = "sessions_session__g2" -> 3
      [] a = "web_site_visit__g3" -> 4
      [] OTHER -> 1

\* list(sorted(self.query_metrics.keys()))
SortedKeys(query_metrics) ==
    [i \in 1..Len(query_metrics) |->
        CHOOSE key \in {query_metrics[k].key : k \in 1..Len(query_metrics)} :
            Cardinality({k \in 1..Len(query_metrics) :
                            AliasRank(BucketAlias(query_metrics[k].key))
                                < AliasRank(BucketAlias(key))}) = i - 1]

\* the request of the sub-query of one bucket (lines 76-90): the bucket's
\* metrics and dimensions, its filters as the caller's dictionaries are now
BucketRequest(req, sub, key, where) ==
    LET filters == Get(sub.query_where, key)
    IN  [metrics |-> Get(sub.query_metrics, key),
         dimensions |-> Get(sub.query_dimensions, key),
         where |-> [x \in 1..Len(filters) |->
                       IF filters[x].src > 0 THEN where[filters[x].src] ELSE filters[x].def],
         having |-> <<>>,
         query_type |-> req.query_type, connection |-> req.connection,
         force_group_by |-> req.force_group_by]

\* the caller's dictionaries after a bucket's filters went through a generator
BucketWriteBack(where, filters, changed) ==
    [k \in 1..Len(where) |->
        IF \E x \in 1..Len(filters) : filters[x].src = k
        THEN changed[CHOOSE x \in 1..Len(filters) :
                        /\ filters[x].src = k
                        /\ \A y \in (x + 1)..Len(filters) : filters[y].src # k]
        ELSE where[k]]

\* the resolver's query_where after a bucket's filters went through a
\* generator: the lists hold the dictionaries themselves, so the bucket's
\* entries are as the generator left them (changed), the copies of
\* line 249 included, and an entry of another bucket that is one of the
\* caller's dictionaries is as that dictionary is now (where)
SyncQueryWhere(query_where, key, changed, where) ==
    [k \in 1..Len(query_where) |->
        Entry(query_where[k].key,
              [x \in 1..Len(query_where[k].items) |->
                  LET item == query_where[k].items[x] IN
                  IF query_where[k].key = key THEN [item EXCEPT !.def = changed[x]]
                  ELSE IF item.src > 0 THEN [item EXCEPT !.def = where[item.src]]
                  ELSE item])]

RECURSIVE BucketLoop(_, _, _, _)
\* the loop of lines 75-92: one resolver and one get_query(semicolon=False)
\* per bucket.  st = [err, where, attrs, queries, query_type, query_where];
\* line 84 reads self.query_where[join_hash], which puts an empty list
\* under the key of a bucket that has no filters
BucketLoop(req, sub, b, st) ==
    IF b > Len(sub.query_metrics) \/ st.err # NONE THEN st
    ELSE LET key == sub.query_metrics[b].key
             Written(resolver, run, where) ==
                 BucketLoop(req, sub, b + 1,
                    [err |-> run.t.err,
                     where |-> where,
                     attrs |-> run.attrs,
                     queries |-> Append(st.queries,
                                        CteEntry(TableRef("bucket", BucketAlias(key)), run.t.sql)),
                     query_type |-> resolver.query_type,
                     query_where |-> SyncQueryWhere(Touch(st.query_where, key), key,
                                                    run.t.where, where)])
             Queried(resolver, run) ==
                 Written(resolver, run,
                         BucketWriteBack(st.where, Get(st.query_where, key), run.t.where))
             Resolved(breq, resolver) ==
                 IF resolver.err # NONE
                 THEN [st EXCEPT !.err = resolver.err, !.query_where = Touch(@, key)]
                 ELSE Queried(resolver,
                              Run(Frame("get_query", NONE, breq,
                                        Design(resolver.no_group_by, resolver.query_type,
                                               resolver.field_lookup),
                                        FALSE,
                                        IF resolver.has_cumulative_metric THEN "cumulative"
                                        ELSE "single"),
                                  st.attrs))
             Requested(breq) == Resolved(breq, SingleSQLQueryResolver(breq))
         IN  Requested(BucketRequest(req, sub, key, st.where))

\* The definition of a MetricsLayerMergedResultsQuery: the keys it has and,
\* of the values, those the class reads.  The explore_* dictionaries map
\* the alias of a sub-query to its query, metrics or dimensions;
\* defaulting tells whether explore_dimensions is a defaultdict(list).
MergedDefinition(keys, query_type, explore_names, explore_queries, explore_metrics, explore_dimensions, defaulting, merged_metrics) ==
    [keys |-> keys, query_type |-> query_type, explore_names |-> explore_names,
     explore_queries |-> explore_queries, explore_metrics |-> explore_metrics,
     explore_dimensions |-> explore_dimensions, defaulting |-> defaulting,
     merged_metrics |-> merged_metrics, join_hashes |-> <<>>]

\* the keys of the definition the resolver hands to
\* MetricsLayerMergedResultsQuery (resolve.py lines 94-104)
QueryConfigKeys ==
    {"merged_metrics", "query_metrics", "query_dimensions", "having", "queries_to_join",
     "join_hashes", "query_type", "limit", "project"}

\* query_config of _get_merged_result_query (lines 94-104): none of the
\* explore_* keys the class reads is among its keys
query_config(sub, query_type) ==
    [MergedDefinition(QueryConfigKeys, query_type, <<>>, <<>>, <<>>, <<>>, FALSE,
                      sub.merged_metrics)
        EXCEPT !.join_hashes = SortedKeys(sub.query_metrics)]

\* self.explore_dimensions[alias]: [err, items, dict].  A defaultdict puts
\* an empty list under a key it does not have, a dict raises KeyError
Lookup(dict, defaulting, key) ==
    IF KeyIndex(dict, key) # 0 THEN [err |-> NONE, items |-> Get(dict, key), dict |-> dict]
    ELSE IF defaulting THEN [err |-> NONE, items |-> <<>>, dict |-> Touch(dict, key)]
    ELSE [err |-> "KeyError", items |-> <<>>, dict |-> dict]

\* MetricsLayerMergedResultsQuery._build_join_criteria: [err, on, raw,
\* explore_dimensions].  on: the pairs of aliases compared; raw: "1=1"
\* without any dimension, else the comparisons joined by " and " (the
\* empty text when the first sub-query has no dimension)
build_join_criteria(definition, first, second, attrs) ==
    LET dims == definition.explore_dimensions
        no_dimensions == \A k \in 1..Len(dims) : Len(dims[k].items) = 0
        Out(err, on, raw, dict) == [err |-> err, on |-> on, raw |-> raw, explore_dimensions |-> dict]
        Paired(f, g) ==
            IF g.err # NONE THEN Out(g.err, <<>>, NONE, g.dict)
            ELSE IF Len(g.items) < Len(f.items) THEN Out("IndexError", <<>>, NONE, g.dict)
            ELSE Out(NONE,
                     Concat([i \in 1..Len(f.items) |->
                                <<alias(f.items[i], attrs), alias(g.items[i], attrs)>>]),
                     "and", g.dict)
        First(f) ==
            IF f.err # NONE THEN Out(f.err, <<>>, NONE, f.dict)
            ELSE IF Len(f.items) = 0 THEN Out(NONE, <<>>, "", f.dict)
            ELSE Paired(f, Lookup(f.dict, definition.defaulting, second))
    IN  IF "explore_dimensions" \notin definition.keys THEN Out("AttributeError", <<>>, NONE, dims)
        ELSE IF no_dimensions THEN Out(NONE, <<>>, "1=1", dims)
        ELSE First(Lookup(dims, definition.defaulting, first))

RECURSIVE JoinLoop(_, _, _, _)
\* build_cte_from lines 34-39 from the i-th alias on: [err, joins,
\* explore_dimensions]
JoinLoop(definition, i, joins, attrs) ==
    IF i > Len(definition.explore_names)
    THEN [err |-> NONE, joins |-> joins, explore_dimensions |-> definition.explore_dimensions]
    ELSE LET Criteria(c) ==
                 IF c.err # NONE
                 THEN [err |-> c.err, joins |-> joins, explore_dimensions |-> c.explore_dimensions]
                 ELSE JoinLoop([definition EXCEPT !.explore_dimensions = c.explore_dimensions],
                               i + 1,
                               Append(joins,
                                      [Join(TableRef("bucket", definition.explore_names[i]),
                                            "inner", c.on) EXCEPT !.raw = c.raw]),
                               attrs)
         IN  Criteria(build_join_criteria(definition, definition.explore_names[1],
                                          definition.explore_names[i], attrs))

\* MetricsLayerMergedResultsQuery.build_cte_from: [err, joins,
\* explore_dimensions].  An attribute that is no key of the definition is
\* None: query_lookup[None] raises KeyError (line 86), None.items()
\* AttributeError (line 31), enumerate(None) TypeError (line 34)
build_cte_from(definition, attrs) ==
    LET Failed(err) == [err |-> err, joins |-> <<>>,
                        explore_dimensions |-> definition.explore_dimensions]
    IN  IF "query_type" \notin definition.keys \/ definition.query_type \notin Dialects
        THEN Failed("KeyError")
        ELSE IF "explore_queries" \notin definition.keys THEN Failed("AttributeError")
        ELSE IF "explore_names" \notin definition.keys THEN Failed("TypeError")
        ELSE JoinLoop(definition, 2, <<>>, attrs)

\* MetricsLayerMergedResultsQuery.get_select_columns: [err, select], the
\* metrics of every sub-query, the dimensions of every sub-query, then the
\* merged metrics
merged_select_columns(definition, attrs) ==
    LET column(key, n) ==
            SelectItem([field |-> n, dialect |-> "ALIAS", timeframe |-> alias(n, attrs).timeframe],
                       alias(n, attrs), FALSE, TableRef("bucket", key))
        columns(dict) ==
            Concat([k \in 1..Len(dict) |->
                       [x \in 1..Len(dict[k].items) |-> column(dict[k].key, dict[k].items[x])]])
    IN  IF "explore_metrics" \notin definition.keys \/ "explore_dimensions" \notin definition.keys
        THEN [err |-> "AttributeError", select |-> <<>>]
        ELSE IF "merged_metrics" \notin definition.keys
        THEN [err |-> "TypeError", select |-> <<>>]
        ELSE [err |-> NONE,
              select |-> columns(definition.explore_metrics)
                         \o columns(definition.explore_dimensions)
                         \o [x \in 1..Len(definition.merged_metrics) |->
                                SelectItem([field |-> definition.merged_metrics[x],
                                            dialect |-> "ALIAS", timeframe |-> NONE],
                                           alias(definition.merged_metrics[x], attrs), FALSE,
                                           NoTable)]]

\* MetricsLayerMergedResultsQuery.get_query: [err, sql, explore_dimensions].
\* Lines 25-26 append the semicolon whenever the caller asks for it,
\* whatever the dialect
MergedResults_get_query(definition, semicolon, attrs) ==
    LET Selected(cte, columns) ==
            IF columns.err # NONE
            THEN [err |-> columns.err, sql |-> NoStmt, explore_dimensions |-> cte.explore_dimensions]
            ELSE [err |-> NONE,
                  sql |-> Stmt("merged", definition.explore_queries, columns.select,
                               IF Len(definition.explore_names) = 0 THEN NoTable
                               ELSE TableRef("bucket", definition.explore_names[1]),
                               cte.joins, <<>>, <<>>, <<>>, <<>>, EndsWithSemicolon(semicolon)),
                  explore_dimensions |-> cte.explore_dimensions]
        Built(cte) ==
            IF cte.err # NONE
            THEN [err |-> cte.err, sql |-> NoStmt, explore_dimensions |-> cte.explore_dimensions]
            ELSE Selected(cte, merged_select_columns(
                                   [definition EXCEPT !.explore_dimensions = cte.explore_dimensions],
                                   attrs))
    IN  Built(build_cte_from(definition, attrs))

\* SQLQueryResolver._get_merged_result_query: [err, sql, where, attrs], the
\* attributes derive_sub_queries3 assigned to the resolver (query_where with
\* the entries the loop over the buckets added) and the step the call ended in
get_merged_result_query(req, semicolon, attrs) ==
    LET failed(step, err, where, a) ==
            [err |-> err, sql |-> NoStmt, where |-> where, attrs |-> a,
             merged_metrics |-> <<>>, query_metrics |-> <<>>, query_dimensions |-> <<>>,
             query_where |-> <<>>, assigned |-> {}, step |-> step]
        bucketed(r, sub, query_where) ==
            [r EXCEPT !.merged_metrics = sub.merged_metrics,
                      !.query_metrics = sub.query_metrics,
                      !.query_dimensions = sub.query_dimensions,
                      !.query_where = query_where,
                      !.assigned = sub.assigned]
        Merged(sub, st, q) ==
            IF q.err # NONE
            THEN bucketed(failed("merged_result_query", q.err, st.where, st.attrs), sub,
                          st.query_where)
            ELSE bucketed([failed("merged_result_query", NONE, st.where, st.attrs)
                              EXCEPT !.sql = q.sql], sub, st.query_where)
        Queried(sub, st) ==
            IF st.err # NONE
            THEN bucketed(failed("sub_queries", st.err, st.where, st.attrs), sub, st.query_where)
            ELSE IF Len(sub.query_metrics) = 0
            THEN bucketed(failed("sub_queries", "UnboundLocalError", st.where, st.attrs), sub,
                          st.query_where)
            ELSE Merged(sub, st, MergedResults_get_query(query_config(sub, st.query_type),
                                                         semicolon, st.attrs))
        Derived(sub) ==
            IF sub.err # NONE
            THEN bucketed(failed("derive_sub_queries3", sub.err, req.where, attrs), sub,
                          sub.query_where)
            ELSE Queried(sub, BucketLoop(req, sub, 1,
                                         [err |-> NONE, where |-> req.where, attrs |-> attrs,
                                          queries |-> <<>>, query_type |-> NONE,
                                          query_where |-> sub.query_where]))
        Parsed(names) ==
            IF names.err # NONE THEN failed("parse_field_names", names.err, req.where, attrs)
            ELSE Derived(derive_sub_queries3(req, attrs))
    IN  Parsed(parse_field_names(req.where, req.having))

\* list(set(items)): the distinct items, in an order the hashes of the
\* objects decide
SetOrders(items) ==
    {o \in [1..Cardinality(Range(items)) -> Range(items)] :
        \A x, y \in DOMAIN o : x # y => o[x] # o[y]}

\* lines 288-289 (364-365): every bucket's list replaced by list(set(list)),
\* the dictionaries that can come of it
Shuffles(dict) ==
    { [k \in 1..Len(dict) |-> Entry(dict[k].key, p[k])] :
        p \in {q \in [1..Len(dict) -> UNION {SetOrders(dict[k].items) : k \in 1..Len(dict)}] :
                  \A k \in 1..Len(dict) : q[k] \in SetOrders(dict[k].items)} }

\* the key of a sub-query of derive_sub_queries2: the join graph hash alone
HashKey(name) == [canon_date |-> NONE, hash |-> join_graph_hash(ProjectFields[name].view)]

RECURSIVE MetricLoop2(_, _, _)
\* derive_sub_queries2 lines 262-272 (derive_sub_queries lines 342-352, where
\* the key is the explore, the same value): [err, merged_metrics,
\* query_metrics].  A metric that is no merged result and has no canon_date
\* ends the loop with a ValueError.
MetricLoop2(metrics, merged_metrics, query_metrics) ==
    IF Len(metrics) = 0
    THEN [err |-> NONE, merged_metrics |-> merged_metrics, query_metrics |-> query_metrics]
    ELSE IF is_merged_result(Head(metrics))
    THEN MetricLoop2(Tail(metrics), Append(merged_metrics, Head(metrics)), query_metrics)
    ELSE IF canon_date(Head(metrics)) = NoKey
    THEN [err |-> "ValueError", merged_metrics |-> merged_metrics,
          query_metrics |-> query_metrics]
    ELSE MetricLoop2(Tail(metrics), merged_metrics,
                     Put(query_metrics, HashKey(Head(metrics)), Head(metrics)))

RECURSIVE DimensionLoop2(_, _, _, _)
\* derive_sub_queries2 lines 309-319: [err, query_dimensions].  A dimension
\* goes to the bucket of its join graph hash; when it is the canon date of a
\* bucket, the same timeframe of the canon date of every other bucket is
\* looked up (a failed lookup raises) and goes to the bucket of its view.
DimensionLoop2(dimensions, query_dimensions, dimension_mapping, attrs) ==
    IF Len(dimensions) = 0 THEN [err |-> NONE, query_dimensions |-> query_dimensions]
    ELSE LET d == Head(dimensions)
             dimension_group == IF d \in DateFieldNames THEN attrs[d] ELSE NONE
             infos == Get(dimension_mapping, FieldKey(d))
             Looked(found) ==
                 LET mapped == [x \in 1..Len(found) |->
                                   Pair(IF found[x] = NONE THEN [canon_date |-> NONE, hash |-> NONE]
                                        ELSE HashKey(found[x]),
                                        found[x])]
                     appended == PutPairs(Put(query_dimensions, HashKey(d), d),
                                          FoundBefore(mapped))
                 IN  IF \E x \in 1..Len(found) : found[x] = NONE
                     THEN [err |-> "AccessDeniedOrDoesNotExistException",
                           query_dimensions |-> appended]
                     ELSE DimensionLoop2(Tail(dimensions), appended, dimension_mapping, attrs)
         IN  Looked([x \in 1..Len(infos) |-> get_field_by_key(infos[x].field, dimension_group)])

RECURSIVE WhereLoop2(_, _, _)
\* derive_sub_queries2 lines 325-336: [err, query_where].  A filter goes to
\* the bucket of its field's join graph hash.  The mapping is read under
\* field.name, the name without its view, which is no key of it: no filter
\* is copied to another bucket.
WhereLoop2(k, where, query_where) ==
    IF k > Len(where) THEN [err |-> NONE, query_where |-> query_where]
    ELSE IF "field" \notin where[k].keys THEN [err |-> "KeyError", query_where |-> query_where]
    ELSE WhereLoop2(k + 1, where,
                    Put(query_where, HashKey(where[k].field), [src |-> k, def |-> where[k]]))

\* SQLQueryResolver.derive_sub_queries2: the results the call can have, one
\* per order list(set(...)) can give the metrics of the buckets
derive_sub_queries2(req, attrs) ==
    LET early == {"query_metrics", "merged_metrics"}
        Out(err, merged_metrics, query_metrics, query_dimensions, query_where, assigned) ==
            [err |-> err, merged_metrics |-> merged_metrics, query_metrics |-> query_metrics,
             query_dimensions |-> query_dimensions, query_where |-> query_where,
             assigned |-> assigned]
        Filtered(merged_metrics, query_metrics, d, w) ==
            IF d.err # NONE
            THEN Out(d.err, merged_metrics, query_metrics, d.query_dimensions, <<>>,
                     early \cup {"query_dimensions"})
            ELSE Out(w.err, merged_metrics, query_metrics, d.query_dimensions, w.query_where,
                     early \cup {"query_dimensions", "query_where"})
        Mapped(merged_metrics, query_metrics) ==
            IF DifferentCanonDates(query_metrics)
            THEN Out("NotImplementedError", merged_metrics, query_metrics, <<>>, <<>>, early)
            ELSE Filtered(merged_metrics, query_metrics,
                          DimensionLoop2(req.dimensions, <<>>,
                                         PutPairs(<<>>, CanonDateMapping(query_metrics)), attrs),
                          WhereLoop2(1, req.where, <<>>))
        Referenced(loop, ref_fields) ==
            IF loop.err # NONE
            THEN {Out(loop.err, loop.merged_metrics, loop.query_metrics, <<>>, <<>>, early)}
            ELSE {Mapped(loop.merged_metrics, query_metrics) :
                    query_metrics \in
                        Shuffles(PutPairs(loop.query_metrics,
                                          [k \in 1..Len(ref_fields) |->
                                              Pair(HashKey(ref_fields[k]), ref_fields[k])]))}
        Looped(loop) ==
            Referenced(loop, Concat([k \in 1..Len(loop.merged_metrics) |->
                                        ProjectFields[loop.merged_metrics[k]].refs]))
    IN  Looped(MetricLoop2(req.metrics, <<>>, <<>>))

\* Project.get_explore_from_field: the explore of a field, which is the join
\* component of its view
get_explore_from_field(name) == join_graph_hash(ProjectFields[name].view)

\* the key of a sub-query of derive_sub_queries: the explore's name
ExploreKey(name) == [canon_date |-> NONE, hash |-> get_explore_from_field(name)]

RECURSIVE ExploreDimensionLoop(_, _, _)
\* derive_sub_queries lines 386-398: [err, query_dimensions].  A dimension
\* whose explore has no metric raises; the mapping is read under field.name,
\* which is no key of it.
ExploreDimensionLoop(dimensions, explore_dimensions, explore_metrics) ==
    IF Len(dimensions) = 0 THEN [err |-> NONE, query_dimensions |-> explore_dimensions]
    ELSE IF KeyIndex(explore_metrics, ExploreKey(Head(dimensions))) = 0
    THEN [err |-> "ValueError", query_dimensions |-> explore_dimensions]
    ELSE ExploreDimensionLoop(Tail(dimensions),
                              Put(explore_dimensions, ExploreKey(Head(dimensions)), Head(dimensions)),
                              explore_metrics)

RECURSIVE ExploreWhereLoop(_, _, _, _)
\* derive_sub_queries lines 401-415: [err, query_where]
ExploreWhereLoop(k, where, explore_where, explore_metrics) ==
    IF k > Len(where) THEN [err |-> NONE, query_where |-> explore_where]
    ELSE IF "field" \notin where[k].keys THEN [err |-> "KeyError", query_where |-> explore_where]
    ELSE IF KeyIndex(explore_metrics, ExploreKey(where[k].field)) = 0
    THEN [err |-> "ValueError", query_where |-> explore_where]
    ELSE ExploreWhereLoop(k + 1, where,
                          Put(explore_where, ExploreKey(where[k].field),
                              [src |-> k, def |-> where[k]]),
                          explore_metrics)

\* SQLQueryResolver.derive_sub_queries, the variant by explore: the results
\* the call can have.  query_metrics, query_dimensions and query_where of a
\* result are the explore_metrics, explore_dimensions and explore_where the
\* call assigns.
derive_sub_queries(req, attrs) ==
    LET early == {"explore_metrics", "merged_metrics"}
        Out(err, merged_metrics, explore_metrics, explore_dimensions, explore_where, assigned) ==
            [err |-> err, merged_metrics |-> merged_metrics, query_metrics |-> explore_metrics,
             query_dimensions |-> explore_dimensions, query_where |-> explore_where,
             assigned |-> assigned]
        Filtered(merged_metrics, explore_metrics, d, w) ==
            IF d.err # NONE
            THEN Out(d.err, merged_metrics, explore_metrics, d.query_dimensions, <<>>,
                     early \cup {"explore_dimensions"})
            ELSE Out(w.err, merged_metrics, explore_metrics, d.query_dimensions, w.query_where,
                     early \cup {"explore_dimensions", "explore_where"})
        Mapped(merged_metrics, explore_metrics) ==
            IF DifferentCanonDates(explore_metrics)
            THEN Out("NotImplementedError", merged_metrics, explore_metrics, <<>>, <<>>, early)
            ELSE Filtered(merged_metrics, explore_metrics,
                          ExploreDimensionLoop(req.dimensions, <<>>, explore_metrics),
                          ExploreWhereLoop(1, req.where, <<>>, explore_metrics))
        Referenced(loop, ref_fields) ==
            IF loop.err # NONE
            THEN {Out(loop.err, loop.merged_metrics, loop.query_metrics, <<>>, <<>>, early)}
            \* lines 358-359: a view has no explore, and None has no name
            ELSE IF Len(ref_fields) > 0
            THEN {Out("AttributeError", loop.merged_metrics, loop.query_metrics, <<>>, <<>>,
                      early)}
            ELSE {Mapped(loop.merged_metrics, explore_metrics) :
                    explore_metrics \in Shuffles(loop.query_metrics)}
        Looped(loop) ==
            Referenced(loop, Concat([k \in 1..Len(loop.merged_metrics) |->
                                        ProjectFields[loop.merged_metrics[k]].refs]))
    IN  Looped(MetricLoop2(req.metrics, <<>>, <<>>))


\* ------------------------------------------------------------------ requests
\* A request as a caller passes it to a resolver.  query_type NONE: no
\* query_type argument; connection NONE: no connection configured.
Request(metrics, dimensions, where, having, query_type, connection, force_group_by, merged_result) ==
    [metrics |-> metrics, dimensions |-> dimensions, where |-> where, having |-> having,
     query_type |-> query_type, connection |-> connection,
     force_group_by |-> force_group_by, merged_result |-> merged_result]

EmptyRequest == Request(<<>>, <<>>, <<>>, <<>>, NONE, NONE, FALSE, FALSE)

\* the names requests are drawn from
MetricNames == {"total_revenue", "total_lifetime_revenue", "ltv", "number_of_customers"}
DimensionNames == {"order_id", "customer_id", "order_date", "total_revenue"}

\* the filter dictionaries requests are drawn from
FilterUniverse ==
    { PlainFilter("channel", "equal_to", Val("str", "Email")),
      PlainFilter("order_date", "greater_than", Val("str", "order_week")),
      PlainFilter("order_week", "greater_than", Val("datetime", "2024-01-01")),
      PlainFilter("order_week", "greater_than", PyNone),
      LiteralFilter,
      GroupFilter(<<PlainFilter("channel", "equal_to", Val("str", "Email")),
                    PlainFilter("channel", "equal_to", Val("str", "Paid"))>>, "or"),
      NoFieldFilter("equal_to", Val("str", "Email")) }

\* requests that vary the fields, without filters
FieldRequests ==
    { Request(m, d, <<>>, <<>>, q, NONE, g, FALSE) :
        m \in SeqsUpTo(MetricNames, MaxMetrics), d \in SeqsUpTo(DimensionNames, MaxDimensions),
        q \in Dialects \cup {NONE}, g \in BOOLEAN }

\* requests that vary the filters, over a few shapes of fields
FilterRequests ==
    { Request(m, d, w, <<>>, q, NONE, FALSE, FALSE) :
        m \in {<<"total_revenue">>, <<"total_lifetime_revenue">>},
        d \in {<<>>, <<"order_date">>},
        w \in SeqsUpTo(FilterUniverse, MaxFilters) \ {<<>>},
        q \in Dialects }

\* requests of merged results
MergedRequests ==
    { Request(m, d, w, <<>>, q, NONE, FALSE, TRUE) :
        m \in {<<"revenue_per_session">>, <<"total_revenue", "number_of_sessions">>,
               <<"number_of_sessions", "total_revenue">>,
               <<"site_visits", "site_signups">>,
               <<"total_revenue_net", "total_revenue">>,
               <<"revenue_per_session", "revenue_per_session">>,
               <<"number_of_sessions">>, <<"number_of_customers">>},
        d \in {<<>>, <<"order_date">>, <<"region">>, <<"order_date", "region">>},
        w \in {<<>>, <<PlainFilter("channel", "equal_to", Val("str", "Email"))>>,
               <<PlainFilter("region", "equal_to", Val("str", "West"))>>,
               <<PlainFilter("order_date", "greater_than", Val("datetime", "2024-01-01"))>>},
        q \in Dialects }

\* requests for two cumulative metrics of two views of one join component,
\* with filters on either default date and a having filter on a plain measure
CumulativeRequests ==
    { Request(m, d, w, h, q, NONE, FALSE, FALSE) :
        m \in {<<"lifetime_visits", "lifetime_signups">>, <<"lifetime_signups", "lifetime_visits">>,
               <<"site_visits", "lifetime_signups">>,
               <<"lifetime_revenue_share", "total_lifetime_revenue">>},
        d \in {<<>>, <<"site_visit_date">>},
        w \in {<<>>, <<PlainFilter("site_visit_date", "greater_than", Val("datetime", "2024-01-01"))>>,
               <<PlainFilter("visit_date", "greater_than", Val("datetime", "2024-01-01"))>>},
        h \in {<<>>, <<PlainFilter("site_visits", "greater_than", Val("number", "10"))>>},
        q \in {"SNOWFLAKE", "BIGQUERY"} }

Requests == FieldRequests \cup FilterRequests \cup CumulativeRequests

\* requests passed to granite's resolver and to the top-level resolver
GraniteRequests ==
    {r \in FieldRequests : r.query_type \in {NONE, "DRUID"} /\ ~r.force_group_by}
    \cup {r \in FilterRequests : r.query_type = "SNOWFLAKE"}
    \cup { Request(<<"number_of_sessions">>, d, <<>>, <<>>, NONE, NONE, FALSE, FALSE) :
             d \in {<<>>, <<"session_region">>, <<"number_of_sessions">>} }
TopRequests ==
    MergedRequests
    \cup {r \in FieldRequests : r.query_type = "SNOWFLAKE" /\ ~r.force_group_by}
    \cup {r \in FilterRequests : r.query_type = "SNOWFLAKE"}

\* -------------------------------------------------------------------- sets
\* An entry of a set's fields, by the text it is: whether it contains '*',
\* whether it contains '-', and the view and the name left once both
\* characters are removed (view NONE for an unqualified name).
SetEntry(star, dash, view, name) == [star |-> star, dash |-> dash, view |-> view, name |-> name]

\* a set definition: its name, the view it belongs to, its fields
SetDef(name, view_name, fields) == [name |-> name, view_name |-> view_name, fields |-> fields]

\* a field name of a result, "<view>.<name>"
ViewField(view, name) == [view |-> view, name |-> name]

\* the sets of the project
ProjectSets ==
    << SetDef("basics", "orders",
              << SetEntry(FALSE, FALSE, NONE, "order_id"),
                 SetEntry(FALSE, FALSE, NONE, "channel"),
                 SetEntry(FALSE, TRUE, NONE, "channel"),
                 SetEntry(FALSE, FALSE, NONE, "total_revenue") >>),
       SetDef("people", "customers",
              << SetEntry(FALSE, FALSE, NONE, "region"),
                 SetEntry(FALSE, FALSE, "orders", "channel") >>),
       SetDef("loop_a", "orders",
              << SetEntry(FALSE, FALSE, NONE, "order_id"),
                 SetEntry(TRUE, FALSE, NONE, "loop_b") >>),
       SetDef("loop_b", "orders",
              << SetEntry(TRUE, FALSE, NONE, "loop_a"),
                 SetEntry(FALSE, FALSE, NONE, "channel") >>) >>

\* project.fields(view_name=..., expand_dimension_groups=True), as
\* "<view>.<alias>", in the order of the view
AllFields(view_name) ==
    CASE view_name = "orders" ->
            << ViewField("orders", "order_id"), ViewField("orders", "channel"),
               ViewField("orders", "order_date"), ViewField("orders", "order_week"),
               ViewField("orders", "total_revenue") >>
      [] view_name = "customers" ->
            << ViewField("customers", "customer_id"), ViewField("customers", "region"),
               ViewField("customers", "number_of_customers") >>
      [] OTHER -> <<>>

\* Set._get_view_name: [err, view]
get_view_name(view_name, set) ==
    IF view_name # NONE THEN [err |-> NONE, view |-> view_name]
    ELSE IF set.view_name # NONE THEN [err |-> NONE, view |-> set.view_name]
    ELSE [err |-> "ValueError", view |-> NONE]

\* lines 45-48 with the duplicates of all_field_names kept
perform_exclusion_keeping_duplicates(all_field_names, names_to_exclude) ==
    SelectSeq(all_field_names, LAMBDA f : f \notin names_to_exclude)

\* lines 45-48: the set of the names not excluded, sorted by the index of
\* their first occurrence in all_field_names
perform_exclusion(all_field_names, names_to_exclude) ==
    LET result_field_names == {f \in Range(all_field_names) : f \notin names_to_exclude}
        index(f) == CHOOSE i \in 1..Len(all_field_names) :
                        /\ all_field_names[i] = f
                        /\ \A j \in 1..(i - 1) : all_field_names[j] # f
    IN  [k \in 1..Cardinality(result_field_names) |->
            CHOOSE f \in result_field_names :
                Cardinality({g \in result_field_names : index(g) < index(f)}) = k - 1]

RECURSIVE field_names_in(_, _)
RECURSIVE internal_get_fields_from_set(_, _, _)
RECURSIVE SetLoop(_, _, _, _, _)

\* project.get_set(set_name, view_name=view_name): the index of the set in
\* the project, 0 when there is none
get_set(entry) ==
    IF \E k \in 1..Len(ProjectSets) :
           /\ ProjectSets[k].name = entry.name
           /\ entry.view \in {NONE, ProjectSets[k].view_name}
    THEN CHOOSE k \in 1..Len(ProjectSets) :
             /\ ProjectSets[k].name = entry.name
             /\ entry.view \in {NONE, ProjectSets[k].view_name}
    ELSE 0

\* Set._internal_get_fields_from_set for the name left of a '*' entry:
\* [err, names].  expanding: the sets of the project whose field_names call
\* is on the stack.  Line 73 calls field_names of the set found, whatever
\* is on the stack: a call on a set that is being expanded meets the same
\* entry again and nests without end, and what the caller gets is the
\* RecursionError of the interpreter whose stack is full
internal_get_fields_from_set(set, entry, expanding) ==
    IF entry.name = "ALL_FIELDS" THEN [err |-> NONE, names |-> AllFields(set.view_name)]
    ELSE IF get_set(entry) = 0 THEN [err |-> "ValueError", names |-> <<>>]
    ELSE IF get_set(entry) \in expanding THEN [err |-> "RecursionError", names |-> <<>>]
    ELSE field_names_in(ProjectSets[get_set(entry)], expanding \cup {get_set(entry)})

\* the loop of Set.field_names from the k-th entry on:
\* [err, all_field_names, names_to_exclude]
SetLoop(set, k, all_field_names, names_to_exclude, expanding) ==
    IF k > Len(set.fields)
    THEN [err |-> NONE, all_field_names |-> all_field_names,
          names_to_exclude |-> names_to_exclude]
    ELSE LET entry == set.fields[k]
             Failed(err) == [err |-> err, all_field_names |-> all_field_names,
                             names_to_exclude |-> names_to_exclude]
             Removed(r) ==
                 IF r.err # NONE THEN Failed(r.err)
                 ELSE SetLoop(set, k + 1, all_field_names, names_to_exclude \cup Range(r.names),
                              expanding)
             Added(r) ==
                 IF r.err # NONE THEN Failed(r.err)
                 ELSE SetLoop(set, k + 1, all_field_names \o r.names, names_to_exclude, expanding)
             Named(v) ==
                 [err |-> v.err, names |-> <<ViewField(v.view, entry.name)>>]
         IN  IF entry.star /\ entry.dash
             THEN Removed(internal_get_fields_from_set(set, entry, expanding))
             ELSE IF entry.star THEN Added(internal_get_fields_from_set(set, entry, expanding))
             ELSE IF entry.dash THEN Removed(Named(get_view_name(entry.view, set)))
             ELSE Added(Named(get_view_name(entry.view, set)))

\* Set.field_names of a set reached through the sets in expanding:
\* [err, names]
field_names_in(set, expanding) ==
    LET Collected(c) ==
            IF c.err # NONE THEN [err |-> c.err, names |-> <<>>]
            ELSE [err |-> NONE,
                  names |-> perform_exclusion(c.all_field_names, c.names_to_exclude)]
    IN  Collected(SetLoop(set, 1, <<>>, {}, expanding))

\* Set.field_names called by a user of the set: [err, names]
field_names(set) == field_names_in(set, {})

\* the entries the fields of a set under test are drawn from
SetEntries ==
    { SetEntry(FALSE, FALSE, NONE, "order_id"),
      SetEntry(FALSE, FALSE, NONE, "channel"),
      SetEntry(FALSE, FALSE, "orders", "channel"),
      SetEntry(FALSE, FALSE, "customers", "region"),
      SetEntry(FALSE, TRUE, NONE, "channel"),
      SetEntry(FALSE, TRUE, "orders", "order_id"),
      SetEntry(TRUE, FALSE, NONE, "basics"),
      SetEntry(TRUE, FALSE, NONE, "people"),
      SetEntry(TRUE, TRUE, NONE, "basics"),
      SetEntry(TRUE, FALSE, NONE, "missing"),
      SetEntry(TRUE, FALSE, NONE, "loop_a"),
      SetEntry(TRUE, TRUE, NONE, "loop_b") }

\* a Set object and its field_names call: the definition, the outcome, and
\* while the call runs the nested field_names calls, the outermost first
SetObject(definition, state, err, names) ==
    [definition |-> definition, state |-> state, err |-> err, names |-> names,
     stack |-> <<>>]

\* a field_names call in progress: its set, the entry it is at, its lists
SetFrame(set, k, all_field_names, names_to_exclude) ==
    [set |-> set, k |-> k, all_field_names |-> all_field_names,
     names_to_exclude |-> names_to_exclude]

\* lines 24-43: the innermost call extends a list by the names of the entry
\* it is at and moves to the next entry
Took(stack, names) ==
    LET top == stack[Len(stack)]
        entry == top.set.fields[top.k]
    IN  [stack EXCEPT ![Len(stack)] =
            [top EXCEPT !.k = @ + 1,
                        !.all_field_names = IF entry.dash THEN @ ELSE @ \o names,
                        !.names_to_exclude = IF entry.dash THEN @ \cup Range(names) ELSE @]]

\* the innermost call is at a '*' entry that names a set of the project:
\* its next step is the nested field_names call of line 73
Nests(s) ==
    LET top == s.stack[Len(s.stack)] IN
    /\ top.k <= Len(top.set.fields)
    /\ top.set.fields[top.k].star
    /\ top.set.fields[top.k].name # "ALL_FIELDS"
    /\ get_set(top.set.fields[top.k]) # 0

\* one step of the innermost field_names call: the loop of lines 20-43 for
\* one entry (a '*' entry that names a set begins a nested call, line 73),
\* or lines 45-48 and the return to the caller
field_names_step(s) ==
    LET stack == s.stack
        top == stack[Len(stack)]
        Raised(err) == [s EXCEPT !.state = "raised", !.err = err, !.stack = <<>>]
        Named(v, entry) ==
            IF v.err # NONE THEN Raised(v.err)
            ELSE [s EXCEPT !.stack = Took(stack, <<ViewField(v.view, entry.name)>>)]
        Entered(entry) ==
            IF entry.star
            THEN IF entry.name = "ALL_FIELDS"
                 THEN [s EXCEPT !.stack = Took(stack, AllFields(top.set.view_name))]
                 ELSE IF get_set(entry) = 0 THEN Raised("ValueError")
                 ELSE [s EXCEPT !.stack =
                          Append(stack, SetFrame(ProjectSets[get_set(entry)], 1, <<>>, {}))]
            ELSE Named(get_view_name(entry.view, top.set), entry)
        Left(result) ==
            IF Len(stack) = 1
            THEN [s EXCEPT !.state = "returned", !.names = result, !.stack = <<>>]
            ELSE [s EXCEPT !.stack = Took(SubSeq(stack, 1, Len(stack) - 1), result)]
    IN  IF top.k > Len(top.set.fields)
        THEN Left(perform_exclusion(top.all_field_names, top.names_to_exclude))
        ELSE Entered(top.set.fields[top.k])

NoSetObject == SetObject(SetDef(NONE, NONE, <<>>), "none", NONE, <<>>)

\* ------------------------------------------------------------------- views
\* A dictionary of a view's "fields": the name, the field_type, the hidden
\* key ("yes", "no", NONE when absent) and, for a dimension group, its
\* timeframes and intervals (<<>> when absent).
FieldDefinition(name, field_type, hidden, timeframes, intervals) ==
    [name |-> name, field_type |-> field_type, hidden |-> hidden,
     timeframes |-> timeframes, intervals |-> intervals]

\* a Field object of a view's field list: the field and its dimension_group
FieldObject(name, dimension_group, hidden) ==
    [name |-> name, dimension_group |-> dimension_group, hidden |-> hidden]

\* line 598: f"{interval}s"
IntervalGroup(interval) ==
    CASE interval = "day" -> "days"
      [] interval = "hour" -> "hours"
      [] OTHER -> "s"

\* View._all_fields: one Field per dictionary, or, when dimension groups are
\* expanded, one Field per timeframe (the raw one hidden) or else per
\* interval of a dimension group; every field is accessible
all_fields(definition, expand_dimension_groups) ==
    Concat([k \in 1..Len(definition) |->
        LET f == definition[k] IN
        IF expand_dimension_groups /\ f.field_type = "dimension_group"
        THEN IF Len(f.timeframes) > 0
             THEN [i \in 1..Len(f.timeframes) |->
                      FieldObject(f.name, f.timeframes[i],
                                  IF f.timeframes[i] = "raw" THEN "yes" ELSE f.hidden)]
             ELSE [i \in 1..Len(f.intervals) |->
                      FieldObject(f.name, IntervalGroup(f.intervals[i]), f.hidden)]
        ELSE <<FieldObject(f.name, NONE, f.hidden)>>])

\* the attribute __all_fields of a View: None, or the list kept
FieldCache(fields) == [present |-> TRUE, fields |-> fields]
NoFieldCache == [present |-> FALSE, fields |-> <<>>]

\* line 583: the fields that are not hidden
shown(fields) == SelectSeq(fields, LAMBDA f : f.hidden \in {"no", NONE})

\* View.fields(show_hidden, expand_dimension_groups) on a view whose
\* __all_fields is cache: [cache, result]
View_fields(cache, definition, show_hidden, expand_dimension_groups) ==
    LET Kept(all) ==
            [cache |-> FieldCache(all),
             result |-> IF show_hidden THEN all ELSE shown(all)]
    IN  IF ~cache.present \/ Len(cache.fields) = 0
        THEN Kept(all_fields(definition, expand_dimension_groups))
        ELSE Kept(cache.fields)

\* the dictionaries the fields of a view under test are drawn from
FieldDefinitions ==
    { FieldDefinition("channel", "dimension", NONE, <<>>, <<>>),
      FieldDefinition("internal_id", "dimension", "yes", <<>>, <<>>),
      FieldDefinition("order", "dimension_group", "no", <<"raw", "date", "week">>, <<>>),
      FieldDefinition("waiting", "dimension_group", NONE, <<>>, <<"day", "hour">>),
      FieldDefinition("total_revenue", "measure", "no", <<>>, <<>>) }

\* a View object: its definition's fields, its __all_fields, the fields()
\* calls made on it so far and what the last one returned
ViewObject(definition, cache, calls, result) ==
    [definition |-> definition, cache |-> cache, calls |-> calls, result |-> result]
NoViewObject == ViewObject(<<>>, NoFieldCache, <<>>, <<>>)

\* ------------------------------------------------ arbitrary merged queries
\* An item of merged_queries that is a dictionary.  metrics, dimensions: the
\* lists (<<>> also when the key is absent); funnel: the dictionary by its
\* keys, or absent; join_fields: a list of {field, source_field}, something
\* that is not a list, or absent.
JoinField(field, source_field) == [field |-> field, source_field |-> source_field]
JoinFields(items) == [present |-> TRUE, list |-> TRUE, items |-> items]
NotAList == [present |-> TRUE, list |-> FALSE, items |-> <<>>]
NoJoinFields == [present |-> FALSE, list |-> TRUE, items |-> <<>>]
FunnelDict(keys) == [present |-> TRUE, keys |-> keys]
NoFunnel == [present |-> FALSE, keys |-> {}]

MergedQuery(metrics, dimensions, funnel, join_fields) ==
    [dict |-> TRUE, metrics |-> metrics, dimensions |-> dimensions, funnel |-> funnel,
     join_fields |-> join_fields]

\* an item of merged_queries that is not a dictionary
NotADictionary ==
    [dict |-> FALSE, metrics |-> <<>>, dimensions |-> <<>>, funnel |-> NoFunnel,
     join_fields |-> NoJoinFields]

\* a funnel check that finds nothing
HasFunnel_ignored(merged_query) == FALSE

\* line 141: merged_query.get("funnel") is truthy
HasFunnel(merged_query) == merged_query.funnel.present /\ merged_query.funnel.keys # {}

RECURSIVE validate_arbitrary_merged_queries(_, _)
\* ArbitraryMergedQueryResolver.validate_arbitrary_merged_queries, from the
\* i-th item on: the error raised, NONE when the list passes
validate_arbitrary_merged_queries(merged_queries, i) ==
    IF i > Len(merged_queries) THEN NONE
    ELSE LET merged_query == merged_queries[i] IN
         IF ~merged_query.dict THEN "QueryError"
         ELSE IF merged_query.metrics = <<>> \/ merged_query.dimensions = <<>> THEN "QueryError"
         ELSE IF HasFunnel(merged_query) THEN "QueryError"
         ELSE IF ~merged_query.join_fields.list THEN "QueryError"
         ELSE IF i > 1 /\ merged_query.join_fields.items = <<>>
         THEN "QueryError"
         ELSE validate_arbitrary_merged_queries(merged_queries, i + 1)

\* the arguments of ArbitraryMergedQueryResolver: the sub-queries, and of the
\* keyword arguments whether a config is among them and the query_type
ArbitraryRequest(merged_queries, config, query_type) ==
    [merged_queries |-> merged_queries, config |-> config, query_type |-> query_type]

\* An ArbitraryMergedQueryResolver and its last call.  created: the sub-query
\* resolvers built so far; sub_queries: the statements generated so far;
\* detail: the field and the query number a JoinError names.
ArbitraryResolver(state, err, req, created, sub_queries, detail) ==
    [state |-> state, err |-> err, req |-> req, created |-> created,
     sub_queries |-> sub_queries, detail |-> detail]

NoDetail == [field |-> NONE, query_number |-> 0]

NoArbitraryResolver ==
    ArbitraryResolver("none", NONE, ArbitraryRequest(<<>>, FALSE, NONE), 0, <<>>, NoDetail)

\* ArbitraryMergedQueryResolver.__init__: the validation runs first
ArbitraryMergedQueryResolver(req) ==
    LET Validated(err) ==
            ArbitraryResolver(IF err = NONE THEN "constructed" ELSE "raised", err, req,
                              0, <<>>, NoDetail)
    IN  Validated(validate_arbitrary_merged_queries(req.merged_queries, 1))

\* the attributes SQLQueryResolver.__init__ assigns (resolve.py lines 30-47)
SQLQueryResolverAttributes ==
    {"field_lookup", "no_group_by", "verbose", "merged_result", "select_raw_sql",
     "explore_name", "suppress_warnings", "limit", "config", "project", "metrics",
     "dimensions", "where", "having", "order_by", "kwargs", "connection", "model"}

\* ArbitraryMergedQueryResolver._init_resolver: SQLQueryResolver(...) reads
\* self.config.project, config being the keyword argument or None
init_resolver(merged_query, req) ==
    [err |-> IF req.config THEN NONE ELSE "AttributeError",
     attributes |-> SQLQueryResolverAttributes,
     metrics |-> merged_query.metrics, dimensions |-> merged_query.dimensions,
     req |-> Request(merged_query.metrics, merged_query.dimensions, <<>>, <<>>,
                     req.query_type, NONE, FALSE, FALSE)]

\* the mapping a name belongs to, <<>> when it belongs to none
MappingOf(name) ==
    IF \E m \in 1..Len(Mappings) : name \in Range(Mappings[m])
    THEN Mappings[CHOOSE m \in 1..Len(Mappings) : name \in Range(Mappings[m])]
    ELSE <<>>

\* ArbitraryMergedQueryResolver._resolve_join_logic: [err, detail, value], value
\* the name left in join_field[key].  The first line reads
\* resolver.mapping_lookup, an attribute SQLQueryResolver does not assign.
resolve_join_logic(resolver, key, name, query_number) ==
    LET JoinError == [err |-> "JoinError", value |-> name,
                      detail |-> [field |-> name, query_number |-> query_number]]
        Found(value) == [err |-> NONE, value |-> value, detail |-> NoDetail]
    IN  IF "mapping_lookup" \notin resolver.attributes
        THEN [err |-> "AttributeError", value |-> name, detail |-> NoDetail]
        ELSE IF MappingOf(name) # <<>>
        THEN IF \E x \in 1..Len(MappingOf(name)) : MappingOf(name)[x] \in Range(resolver.dimensions)
             THEN Found(MappingOf(name)[CHOOSE x \in 1..Len(MappingOf(name)) :
                           /\ MappingOf(name)[x] \in Range(resolver.dimensions)
                           /\ \A y \in 1..(x - 1) :
                                 MappingOf(name)[y] \notin Range(resolver.dimensions)])
             ELSE JoinError
        ELSE IF name \notin FieldNames THEN JoinError
        ELSE IF FieldKey(name) \notin {FieldKey(d) : d \in Range(resolver.dimensions)}
        THEN JoinError
        ELSE Found(name)

RECURSIVE resolve_join_fields_mappings(_, _, _, _, _)
\* ArbitraryMergedQueryResolver._resolve_join_fields_mappings from the j-th
\* entry on: [err, detail, join_fields]
resolve_join_fields_mappings(primary_resolver, secondary_resolver, join_fields, query_number, j) ==
    IF j > Len(join_fields) THEN [err |-> NONE, detail |-> NoDetail, join_fields |-> join_fields]
    ELSE LET Source(f, s) ==
                 IF s.err # NONE THEN [err |-> s.err, detail |-> s.detail, join_fields |-> join_fields]
                 ELSE resolve_join_fields_mappings(
                          primary_resolver, secondary_resolver,
                          [join_fields EXCEPT ![j] = JoinField(f.value, s.value)],
                          query_number, j + 1)
             Field(f) ==
                 IF f.err # NONE THEN [err |-> f.err, detail |-> f.detail, join_fields |-> join_fields]
                 ELSE Source(f, resolve_join_logic(primary_resolver, "source_field",
                                                   join_fields[j].source_field, 1))
         IN  Field(resolve_join_logic(secondary_resolver, "field", join_fields[j].field,
                                      query_number + 1))

\* the arbitrary merged requests: one sub-query over the orders, alone or
\* with one over the sessions joined to it
PrimaryQueries ==
    { MergedQuery(<<"total_revenue">>, d, f, NoJoinFields) :
        d \in {<<"region">>, <<"channel">>, <<>>},
        f \in {NoFunnel, FunnelDict({}), FunnelDict({"steps", "within"})} }
    \cup {NotADictionary}

SecondaryQueries ==
    { MergedQuery(<<"number_of_sessions">>, <<"session_region">>, f, j) :
        f \in {NoFunnel, FunnelDict({"steps", "within"})},
        j \in {NoJoinFields, NotAList, JoinFields(<<>>),
               JoinFields(<<JoinField("session_region", "region")>>),
               JoinFields(<<JoinField("region", "region")>>),
               JoinFields(<<JoinField("session_date", "region")>>),
               JoinFields(<<JoinField("session_region", "channel")>>),
               JoinFields(<<JoinField("session_region", "no_such_field")>>)} }

ArbitraryRequests ==
    { ArbitraryRequest(m, c, q) :
        m \in { <<p>> : p \in PrimaryQueries }
              \cup { <<p, s>> : p \in PrimaryQueries, s \in SecondaryQueries },
        c \in BOOLEAN, q \in {"SNOWFLAKE", "DRUID"} }

\* ------------------------------------------------------------ state machine
VARIABLES
    attrs,  \* the dimension_group attribute of the project's date Field objects
    th,     \* the callers: each one's request, resolver and get_query frame
    flt,    \* a filter object built directly from a dictionary, and its criterion
    amq,    \* an ArbitraryMergedQueryResolver: its arguments and its get_query call
    st,     \* a Set of the project and the result of its field_names call
    vw,     \* a View of the project, its cached fields and its fields() calls
    mrq     \* a MetricsLayerMergedResultsQuery: its definition and its get_query call

vars == <<ProjectFields, attrs, th, flt, amq, st, vw, mrq>>

\* a caller: the kind of resolver it uses, the call it made last (__init__ or
\* get_query), the request it passed, the filter dictionaries as it first
\* wrote them, the resolver and the frame
Caller(kind, stage, req, where0, having0, resolver, frame) ==
    [kind |-> kind, stage |-> stage, req |-> req, where0 |-> where0, having0 |-> having0,
     resolver |-> resolver, frame |-> frame]

IdleFrame == Frame("idle", NONE, EmptyRequest, NoDesign, FALSE, NONE)
IdleCaller == Caller(NONE, NONE, EmptyRequest, <<>>, <<>>, NoResolver, IdleFrame)

\* the frame a constructed resolver leaves: resolved, or raised in __init__
Constructed(req, resolver) ==
    Frame(IF resolver.err = NONE THEN "resolved" ELSE "raised", resolver.err, req,
          NoDesign, FALSE, NONE)

\* the frame of get_query at its first line, the design built (lines 58-64)
Entered(req, resolver, semicolon) ==
    Frame("get_query", NONE, req,
          Design(resolver.no_group_by, resolver.query_type, resolver.field_lookup),
          semicolon, IF resolver.has_cumulative_metric THEN "cumulative" ELSE "single")

\* a filter object: the dictionary it was given (as the constructor leaves
\* it), the dialect of its design (has_design FALSE: built with design=None),
\* the criterion sql_query returned, and the exceptions the constructor
\* caught and passed over
FilterObject(definition, query_type, state, err, crit) ==
    [definition |-> definition, query_type |-> query_type, has_design |-> TRUE,
     state |-> state, err |-> err, crit |-> crit, caught |-> {}]
NoFilterObject == FilterObject(LiteralFilter, NONE, "none", NONE, EmptyCriterion)

\* a MetricsLayerMergedResultsQuery: the definition it was built from (its
\* dictionaries as the calls leave them), and of its last get_query call
\* the semicolon argument and the outcome
MergedResultsQuery(definition, state, semicolon, err, sql) ==
    [definition |-> definition, state |-> state, semicolon |-> semicolon, err |-> err,
     sql |-> sql]
NoMergedResultsQuery ==
    MergedResultsQuery(MergedDefinition({}, NONE, <<>>, <<>>, <<>>, <<>>, FALSE, <<>>),
                       "none", FALSE, NONE, NoStmt)

Init ==
    /\ ProjectFields = LoadedProject
    /\ attrs = LoadedAttrs
    /\ th = [tid \in {1} |-> IdleCaller]
    /\ flt = NoFilterObject
    /\ amq = NoArbitraryResolver
    /\ st = NoSetObject
    /\ vw = NoViewObject
    /\ mrq = NoMergedResultsQuery


Idle(tid) == th[tid].frame.pc = "idle"
Finished(tid) == th[tid].frame.pc \in {"returned", "raised"}

\* SingleSQLQueryResolver(**request)
NewSingleResolver(tid, req) ==
    /\ Idle(tid)
    /\ LET Built(resolver) ==
               th' = [th EXCEPT ![tid] = Caller("single", "init", req, req.where, req.having,
                                                resolver, Constructed(req, resolver))]
       IN  Built(SingleSQLQueryResolver(req))
    /\ UNCHANGED <<ProjectFields, attrs, flt, amq, st, vw, mrq>>

\* granite's SQLQueryResolver(**request)
NewGraniteResolver(tid, req) ==
    /\ Idle(tid)
    /\ LET Built(resolver) ==
               th' = [th EXCEPT ![tid] = Caller("granite", "init", req, req.where, req.having,
                                                resolver, Constructed(req, resolver))]
       IN  Built(granite_SQLQueryResolver(req))
    /\ UNCHANGED <<ProjectFields, attrs, flt, amq, st, vw, mrq>>

\* metrics_layer's SQLQueryResolver(**request): __init__ stores its arguments
NewSQLQueryResolver(tid, req) ==
    /\ Idle(tid)
    /\ th' = [th EXCEPT ![tid] = Caller("top", "init", req, req.where, req.having, NoResolver,
                                        Constructed(req, NoResolver))]
    /\ UNCHANGED <<ProjectFields, attrs, flt, amq, st, vw, mrq>>

\* a constructed resolver between two calls: back from __init__ without an
\* exception, or back from a get_query call
HasResolver(tid) ==
    /\ th[tid].resolver.err = NONE
    /\ th[tid].frame.pc \in {"resolved", "returned", "raised"}

\* the request as the resolver holds it by now: its where and having lists
\* are the caller's dictionaries, as the calls made so far left them
Held(c) == [c.req EXCEPT !.where = c.frame.where, !.having = c.frame.having]

\* SingleSQLQueryResolver.get_query(semicolon), run to its end
SingleGetQuery(tid, semicolon) ==
    /\ th[tid].kind = "single"
    /\ HasResolver(tid)
    /\ LET Done(run) ==
               /\ th' = [th EXCEPT ![tid].stage = "get_query", ![tid].req = Held(th[tid]),
                                    ![tid].frame = run.t]
               /\ attrs' = run.attrs
       IN  Done(Run(Entered(Held(th[tid]), th[tid].resolver, semicolon), attrs))
    /\ UNCHANGED <<ProjectFields, flt, amq, st, vw, mrq>>

\* granite's SQLQueryResolver.get_query()
GraniteGetQuery(tid) ==
    /\ th[tid].kind = "granite"
    /\ HasResolver(tid)
    /\ th' = [th EXCEPT ![tid].stage = "get_query", ![tid].req = Held(th[tid]),
                        ![tid].frame =
                 SingleGenerate(Frame("get_query", NONE, Held(th[tid]),
                                      Design(th[tid].resolver.no_group_by,
                                             th[tid].resolver.query_type,
                                             th[tid].resolver.field_lookup),
                                      TRUE, "single"),
                                attrs)]
    /\ UNCHANGED <<ProjectFields, attrs, flt, amq, st, vw, mrq>>

\* SQLQueryResolver._get_single_query: a SingleSQLQueryResolver is built and asked
get_single_query(req, semicolon, a) ==
    LET Built(resolver) ==
            IF resolver.err # NONE THEN [t |-> Constructed(req, resolver), attrs |-> a]
            ELSE Run(Entered(req, resolver, semicolon), a)
    IN  Built(SingleSQLQueryResolver(req))

\* a SQLQueryResolver between two calls: constructed, or back from get_query
\* or from a derive_sub_queries method
Callable(tid) ==
    /\ th[tid].kind = "top"
    /\ th[tid].frame.pc \in {"resolved", "returned", "raised"}

\* SQLQueryResolver.get_query(semicolon), on a resolver just constructed or
\* called before: the attributes earlier calls assigned stay
TopGetQuery(tid, semicolon) ==
    /\ Callable(tid)
    /\ IF th[tid].req.merged_result
       THEN LET Done(m) ==
                    /\ th' = [th EXCEPT ![tid].stage = "get_query", ![tid].req = Held(th[tid]),
                                         ![tid].frame =
                                 Assign(KeepAttributes(
                                            [Frame(IF m.err = NONE THEN "returned" ELSE "raised",
                                                   m.err, Held(th[tid]), NoDesign, semicolon,
                                                   "merged")
                                                EXCEPT !.where = m.where, !.sql = m.sql,
                                                       !.step = m.step],
                                            th[tid].frame),
                                        m)]
                    /\ attrs' = m.attrs
            IN  Done(get_merged_result_query(Held(th[tid]), semicolon, attrs))
       ELSE LET Done(run) ==
                    /\ th' = [th EXCEPT ![tid].stage = "get_query", ![tid].req = Held(th[tid]),
                                         ![tid].frame =
                                             KeepAttributes([run.t EXCEPT !.semicolon = semicolon],
                                                            th[tid].frame)]
                    /\ attrs' = run.attrs
            IN  Done(get_single_query(Held(th[tid]), semicolon, attrs))
    /\ UNCHANGED <<ProjectFields, flt, amq, st, vw, mrq>>

\* one of the derive_sub_queries methods called on the resolver by itself:
\* method is its name, r the result.  The resolver's lists are the caller's
\* dictionaries as they are by now; the call assigns the attributes it gets
\* to, and an exception leaves the resolver as it is at that point.
Derive(tid, method, r) ==
    LET c == th[tid]
        req == [c.req EXCEPT !.where = c.frame.where, !.having = c.frame.having]
    IN  th' = [th EXCEPT ![tid].stage = "derive", ![tid].req = req,
                         ![tid].frame =
                             [Assign(KeepAttributes(Constructed(req, NoResolver), c.frame), r)
                                 EXCEPT !.step = method, !.err = r.err]]

\* SQLQueryResolver.derive_sub_queries3()
DeriveSubQueries3(tid) ==
    /\ Callable(tid)
    /\ Derive(tid, "derive_sub_queries3",
              derive_sub_queries3([th[tid].req EXCEPT !.where = th[tid].frame.where], attrs))
    /\ UNCHANGED <<ProjectFields, attrs, flt, amq, st, vw, mrq>>

\* SQLQueryResolver.derive_sub_queries2()
DeriveSubQueries2(tid) ==
    /\ Callable(tid)
    /\ \E r \in derive_sub_queries2([th[tid].req EXCEPT !.where = th[tid].frame.where], attrs) :
           Derive(tid, "derive_sub_queries2", r)
    /\ UNCHANGED <<ProjectFields, attrs, flt, amq, st, vw, mrq>>

\* SQLQueryResolver.derive_sub_queries()
DeriveSubQueries(tid) ==
    /\ Callable(tid)
    /\ \E r \in derive_sub_queries([th[tid].req EXCEPT !.where = th[tid].frame.where], attrs) :
           Derive(tid, "derive_sub_queries", r)
    /\ UNCHANGED <<ProjectFields, attrs, flt, amq, st, vw, mrq>>

\* the caller drops the result and its dictionaries
Discard(tid) ==
    /\ Finished(tid)
    /\ th' = [th EXCEPT ![tid] = IdleCaller]
    /\ UNCHANGED <<ProjectFields, attrs, flt, amq, st, vw, mrq>>

\* the caller compiles the same request again for another dialect, passing
\* the very dictionaries the last compilation was given
Recompile(tid, query_type) ==
    /\ Finished(tid)
    /\ th[tid].kind = "single"
    /\ LET Built(req, resolver) ==
               th' = [th EXCEPT ![tid].stage = "init", ![tid].req = req,
                                ![tid].resolver = resolver,
                                ![tid].frame = Constructed(req, resolver)]
           Again(req) == Built(req, SingleSQLQueryResolver(req))
       IN  Again([th[tid].req EXCEPT !.where = th[tid].frame.where,
                                     !.having = th[tid].frame.having,
                                     !.query_type = query_type])
    /\ UNCHANGED <<ProjectFields, attrs, flt, amq, st, vw, mrq>>

Next ==
    \/ \E req \in Requests : NewSingleResolver(1, req)
    \/ \E req \in GraniteRequests : NewGraniteResolver(1, req)
    \/ \E req \in TopRequests : NewSQLQueryResolver(1, req)
    \/ \E semicolon \in BOOLEAN : SingleGetQuery(1, semicolon)
    \/ GraniteGetQuery(1)
    \/ \E semicolon \in BOOLEAN : TopGetQuery(1, semicolon)
    \/ DeriveSubQueries3(1)
    \/ DeriveSubQueries2(1)
    \/ DeriveSubQueries(1)
    \/ Discard(1)
    \/ \E query_type \in Dialects : Recompile(1, query_type)

Spec == Init /\ [][Next]_vars


\* ------------------------------------------- two callers, one project
\* requests of two callers that share the project: each compiles without
\* error when it runs alone
SharedProjectRequests ==
    { Request(<<"total_lifetime_revenue">>, <<>>,
              <<PlainFilter("order_week", "greater_than", Val("datetime", "2024-01-01"))>>,
              <<>>, "SNOWFLAKE", NONE, FALSE, FALSE),
      Request(<<"total_lifetime_revenue">>, <<"order_date">>, <<>>, <<>>,
              "SNOWFLAKE", NONE, FALSE, FALSE),
      Request(<<"total_revenue">>, <<"order_date">>, <<>>, <<>>,
              "SNOWFLAKE", NONE, FALSE, FALSE) }

InitShared ==
    /\ ProjectFields = LoadedProject
    /\ attrs = LoadedAttrs
    /\ th = [tid \in {1, 2} |-> IdleCaller]
    /\ flt = NoFilterObject
    /\ amq = NoArbitraryResolver
    /\ st = NoSetObject
    /\ vw = NoViewObject
    /\ mrq = NoMergedResultsQuery

\* get_query is entered: the design is built, the generator chosen
BeginGetQuery(tid, semicolon) ==
    /\ th[tid].kind = "single"
    /\ th[tid].frame.pc = "resolved"
    /\ th' = [th EXCEPT ![tid].stage = "get_query",
                        ![tid].frame = Entered(th[tid].req, th[tid].resolver, semicolon)]
    /\ UNCHANGED <<ProjectFields, attrs, flt, amq, st, vw, mrq>>

\* the thread of a get_query call runs up to its next access to the project
StepGetQuery(tid) ==
    /\ Running(th[tid].frame)
    /\ LET Done(n) ==
               /\ th' = [th EXCEPT ![tid].frame = n.t]
               /\ attrs' = n.attrs
       IN  Done(Step(th[tid].frame, attrs))
    /\ UNCHANGED <<ProjectFields, flt, amq, st, vw, mrq>>

NextShared ==
    \E tid \in {1, 2} :
        \/ \E req \in SharedProjectRequests : NewSingleResolver(tid, req)
        \/ \E semicolon \in BOOLEAN : BeginGetQuery(tid, semicolon)
        \/ StepGetQuery(tid)
        \/ Discard(tid)

SpecShared == InitShared /\ [][NextShared]_vars

\* ------------------------------------------------ a filter built directly
\* the plain filters the groups are made of; each has its own value
FilterLeaves ==
    { PlainFilter("channel", "equal_to", Val("str", "Email")),
      PlainFilter("order_date", "greater_than", Val("datetime", "2024-01-01")) }

\* the group dictionaries nested at most depth deep: one or two children,
\* at most one of them a group itself, under "and", "or" or no operator
RECURSIVE FilterGroups(_)
FilterGroups(depth) ==
    IF depth = 0 THEN {}
    ELSE LET inner == FilterLeaves \cup FilterGroups(depth - 1)
             children == { <<a>> : a \in inner }
                         \cup { <<a, l>> : a \in inner, l \in FilterLeaves }
                         \cup { <<l, a>> : l \in FilterLeaves, a \in inner }
         IN  { GroupFilter(cs, lop) : cs \in children, lop \in {"and", "or", NONE} }

\* plain filters that validate rejects: an UNKNOWN expression, no "expression" key
MalformedLeaves ==
    { PlainFilter("channel", "UNKNOWN", Val("str", "Paid")),
      FilterDef({"field", "value"}, "channel", NONE, Val("str", "Organic"), <<>>, NONE) }

\* group dictionaries with a logical_operator that is neither "and" nor "or",
\* at the top or nested in a valid group, over valid and malformed children
BadOperatorGroups ==
    LET leaves == FilterLeaves \cup MalformedLeaves
        bad == { GroupFilter(cs, "xor") :
                    cs \in { <<a>> : a \in leaves } \cup { <<a, b>> : a \in leaves, b \in leaves } }
    IN  bad \cup { GroupFilter(<<l, g>>, lop) :
                      l \in FilterLeaves, g \in bad, lop \in {"and", "or"} }

\* filters without a field: a value that reads as true in some spelling, the
\* boolean itself, any other value, and a group over such a filter
BooleanFilters ==
    { NoFieldFilter("equal_to", Val("str", "TRUE")),
      NoFieldFilter("equal_to", Val("str", "true")),
      NoFieldFilter("equal_to", Val("bool", "True")),
      NoFieldFilter("equal_to", Val("str", "Email")),
      GroupFilter(<<PlainFilter("channel", "equal_to", Val("str", "Email")),
                    NoFieldFilter("equal_to", Val("str", "True"))>>, "and") }

\* filters on a yesno field, by the text of their value, and filters that
\* have no "value" key
YesnoFilters ==
    { PlainFilter("is_churned", "equal_to", v) :
        v \in { Val("str", "False"), Val("str", "Not False"), Val("str", "Truely"),
                Val("str", "True or False"), Val("str", "No"), Val("bool", "False") } }
    \cup { FilterDef({"field", "expression"}, f, "is_null", PyNone, <<>>, NONE) :
             f \in {"channel", "is_churned"} }

\* literal filters, by what is under "literal", and groups under the key
\* "conditional_filter_logic", one of them beside a "conditions" list
OtherKeyFilters ==
    { LiteralFilterOf(l) : l \in {Val("str", "orders.revenue > 10"), Val("str", ""), PyNone} }
    \cup { LogicFilter(<<PlainFilter("channel", "equal_to", Val("str", "Email"))>>, NONE),
           LogicFilter(<<PlainFilter("channel", "equal_to", Val("str", "Email")),
                         PlainFilter("channel", "equal_to", Val("str", "Paid"))>>, "or"),
           [LogicFilter(<<PlainFilter("channel", "equal_to", Val("str", "Email"))>>, "and")
               EXCEPT !.keys = @ \cup {"conditions"},
                      !.conditions = <<PlainFilter("channel", "UNKNOWN", Val("str", "Paid"))>>] }

FilterDesign(query_type) == Design(FALSE, query_type, {"channel", "order_date", "is_churned"})

\* the dictionaries of the filters built with design=None: plain filters and
\* groups, the key "query_type" in all of them, in the outermost only, or
\* in none
DesignlessFilters ==
    LET email == PlainFilter("channel", "equal_to", Val("str", "Email"))
        since == PlainFilter("order_date", "greater_than", Val("datetime", "2024-01-01"))
        unknown == PlainFilter("channel", "UNKNOWN", Val("str", "Paid"))
        Keyed(q) ==
            { WithQueryType(l, q) : l \in {email, since, unknown} }
            \cup { WithQueryType(GroupFilter(cs, lop), q) :
                     cs \in { <<email, since>>,
                              <<WithQueryType(email, q), since>>,
                              <<WithQueryType(email, q), WithQueryType(since, q)>>,
                              <<WithQueryType(email, q), WithQueryType(unknown, q)>> },
                     lop \in {"and", "or", "xor"} }
    IN  {email, since, GroupFilter(<<email, since>>, "and"),
         GroupFilter(<<WithQueryType(email, "SNOWFLAKE")>>, "and")}
        \cup Keyed("SNOWFLAKE") \cup Keyed("BIGQUERY")

\* the design a filter object was built with
DesignOf(f) == IF f.has_design THEN FilterDesign(f.query_type) ELSE NoDesign

InitFilter ==
    /\ ProjectFields = LoadedProject
    /\ attrs = LoadedAttrs
    /\ th = [tid \in {1} |-> IdleCaller]
    /\ flt \in { FilterObject(d, q, "new", NONE, EmptyCriterion) :
                    d \in FilterGroups(MaxGroupDepth) \cup BadOperatorGroups \cup BooleanFilters
                           \cup YesnoFilters \cup OtherKeyFilters,
                    q \in {"SNOWFLAKE", "REDSHIFT", "BIGQUERY"} }
               \cup { [FilterObject(d, NONE, "new", NONE, EmptyCriterion)
                          EXCEPT !.has_design = FALSE] : d \in DesignlessFilters }
    /\ amq = NoArbitraryResolver
    /\ st = NoSetObject
    /\ vw = NoViewObject
    /\ mrq = NoMergedResultsQuery

\* MetricsLayerFilter(definition, design), design a MetricsLayerDesign or
\* None: the dictionary is validated and rewritten in place
NewFilter ==
    /\ flt.state = "new"
    /\ LET Built(f, caught) ==
               flt' = [flt EXCEPT !.definition = f.def, !.err = f.err, !.caught = caught,
                                  !.state = IF f.err = NONE THEN "constructed" ELSE "raised"]
       IN  Built(MetricsLayerFilter(flt.definition, DesignOf(flt), attrs),
                 CaughtInValidate(flt.definition, DesignOf(flt), attrs))
    /\ UNCHANGED <<ProjectFields, attrs, th, amq, st, vw, mrq>>

\* MetricsLayerFilter.sql_query of the constructed filter
FilterSqlQuery ==
    /\ flt.state = "constructed"
    /\ LET Done(r) ==
               flt' = [flt EXCEPT !.crit = r.crit, !.err = r.err,
                                  !.state = IF r.err = NONE THEN "compiled" ELSE "raised"]
       IN  Done(filter_sql_query(flt.definition, DesignOf(flt), attrs))
    /\ UNCHANGED <<ProjectFields, attrs, th, amq, st, vw, mrq>>

NextFilter == NewFilter \/ FilterSqlQuery

SpecFilter == InitFilter /\ [][NextFilter]_vars

\* ------------------------------ a merged results query built directly
\* the query of a sub-query, as its resolver returned it (no semicolon)
SubQuery(name) ==
    Stmt("single", <<>>, <<>>, TableRef("view", name), <<>>, <<>>, <<>>, <<>>, <<>>, FALSE)

\* the keys of a definition that has all the class reads
ExploreKeys ==
    {"explore_queries", "explore_names", "explore_metrics", "explore_dimensions",
     "merged_metrics", "query_type", "limit"}

\* explore_dimensions of a definition over the sub-queries orders and
\* sessions: no key, empty lists, paired dimensions, a sub-query without
\* an entry, and a second list shorter than the first
ExploreDimensions ==
    { <<>>,
      <<Entry("orders", <<>>), Entry("sessions", <<>>)>>,
      <<Entry("orders", <<"region">>), Entry("sessions", <<"session_region">>)>>,
      <<Entry("orders", <<"order_date", "region">>),
        Entry("sessions", <<"session_date", "session_region">>)>>,
      <<Entry("sessions", <<"session_region">>)>>,
      <<Entry("orders", <<"region">>)>>,
      <<Entry("orders", <<"order_date", "region">>), Entry("sessions", <<"session_region">>)>> }

\* the definitions a MetricsLayerMergedResultsQuery is built from: over one
\* or two sub-queries, with the keys the class reads, with one of them
\* missing, or with the keys the resolver passes
MergedDefinitions ==
    LET measure(name) == IF name = "orders" THEN "total_revenue" ELSE "number_of_sessions"
    IN  { MergedDefinition(keys, q, names,
                           [i \in 1..Len(names) |->
                               CteEntry(TableRef("bucket", names[i]), SubQuery(names[i]))],
                           [i \in 1..Len(names) |-> Entry(names[i], <<measure(names[i])>>)],
                           d, defaulting, m) :
            keys \in {ExploreKeys, QueryConfigKeys} \cup { ExploreKeys \ {k} : k \in ExploreKeys },
            q \in {"SNOWFLAKE", "DRUID"},
            names \in {<<"orders">>, <<"orders", "sessions">>},
            d \in ExploreDimensions,
            defaulting \in BOOLEAN,
            m \in {<<>>, <<"revenue_per_session">>} }

InitMergedResults ==
    /\ ProjectFields = LoadedProject
    /\ attrs = LoadedAttrs
    /\ th = [tid \in {1} |-> IdleCaller]
    /\ flt = NoFilterObject
    /\ amq = NoArbitraryResolver
    /\ st = NoSetObject
    /\ vw = NoViewObject
    /\ mrq \in { MergedResultsQuery(d, "new", FALSE, NONE, NoStmt) : d \in MergedDefinitions }

\* MetricsLayerMergedResultsQuery(definition).get_query(semicolon), on an
\* object just built or called before
MergedResultsGetQuery(semicolon) ==
    /\ mrq.state # "none"
    /\ LET Done(r) ==
               mrq' = [mrq EXCEPT !.definition.explore_dimensions = r.explore_dimensions,
                                  !.state = IF r.err = NONE THEN "returned" ELSE "raised",
                                  !.semicolon = semicolon, !.err = r.err, !.sql = r.sql]
       IN  Done(MergedResults_get_query(mrq.definition, semicolon, attrs))
    /\ UNCHANGED <<ProjectFields, attrs, th, flt, amq, st, vw>>

NextMergedResults == \E semicolon \in BOOLEAN : MergedResultsGetQuery(semicolon)

SpecMergedResults == InitMergedResults /\ [][NextMergedResults]_vars

\* ------------------------------------ the arbitrary merged query resolver
RECURSIVE ArbitraryLoop(_, _, _, _, _)
\* the loop of ArbitraryMergedQueryResolver.get_query from the i-th sub-query
\* on and what follows it: [err, detail, created, sub_queries, attrs].  After
\* the loop line 64 reads resolver.query_type, an attribute SQLQueryResolver
\* does not assign.
ArbitraryLoop(i, req, created, sub_queries, a) ==
    LET Out(err, detail, c, g, x) ==
            [err |-> err, detail |-> detail, created |-> c, sub_queries |-> g, attrs |-> x]
    IN  IF i > Len(req.merged_queries)
        THEN Out("AttributeError", NoDetail, created, sub_queries, a)
        ELSE LET Generated(run) ==
                     IF run.t.pc = "raised"
                     THEN Out(run.t.err, NoDetail, created + 1, sub_queries, run.attrs)
                     ELSE ArbitraryLoop(i + 1, req, created + 1,
                                        Append(sub_queries, run.t.sql), run.attrs)
                 Joined(resolver, j) ==
                     IF j.err # NONE THEN Out(j.err, j.detail, created + 1, sub_queries, a)
                     ELSE Generated(get_single_query(resolver.req, FALSE, a))
                 Built(resolver) ==
                     IF resolver.err # NONE
                     THEN Out(resolver.err, NoDetail, created, sub_queries, a)
                     ELSE IF i > 1
                     THEN Joined(resolver,
                                 resolve_join_fields_mappings(
                                     init_resolver(req.merged_queries[1], req), resolver,
                                     req.merged_queries[i].join_fields.items, i - 1, 1))
                     ELSE Generated(get_single_query(resolver.req, FALSE, a))
             IN  Built(init_resolver(req.merged_queries[i], req))

\* ArbitraryMergedQueryResolver.get_query: the primary resolver is built
\* first (line 42), then the loop runs
arbitrary_get_query(req, a) ==
    IF init_resolver(req.merged_queries[1], req).err # NONE
    THEN [err |-> init_resolver(req.merged_queries[1], req).err, detail |-> NoDetail,
          created |-> 0, sub_queries |-> <<>>, attrs |-> a]
    ELSE LET Counted(r) == [r EXCEPT !.created = @ + 1]
         IN  Counted(ArbitraryLoop(1, req, 0, <<>>, a))

InitArbitrary ==
    /\ ProjectFields = LoadedProject
    /\ attrs = LoadedAttrs
    /\ th = [tid \in {1} |-> IdleCaller]
    /\ flt = NoFilterObject
    /\ amq = NoArbitraryResolver
    /\ st = NoSetObject
    /\ vw = NoViewObject
    /\ mrq = NoMergedResultsQuery

\* ArbitraryMergedQueryResolver(merged_queries, **kwargs)
NewArbitraryResolver(req) ==
    /\ amq.state = "none"
    /\ amq' = ArbitraryMergedQueryResolver(req)
    /\ UNCHANGED <<ProjectFields, attrs, th, flt, st, vw, mrq>>

\* ArbitraryMergedQueryResolver.get_query()
ArbitraryGetQuery ==
    /\ amq.state = "constructed"
    /\ LET Done(r) ==
               /\ amq' = [amq EXCEPT !.state = IF r.err = NONE THEN "returned" ELSE "failed",
                                     !.err = r.err, !.detail = r.detail,
                                     !.created = r.created, !.sub_queries = r.sub_queries]
               /\ attrs' = r.attrs
       IN  Done(arbitrary_get_query(amq.req, attrs))
    /\ UNCHANGED <<ProjectFields, th, flt, st, vw, mrq>>

\* the caller drops the resolver, or what is left of a failed construction
DiscardArbitrary ==
    /\ amq.state \in {"raised", "failed", "returned"}
    /\ amq' = NoArbitraryResolver
    /\ UNCHANGED <<ProjectFields, attrs, th, flt, st, vw, mrq>>

NextArbitrary ==
    \/ \E req \in ArbitraryRequests : NewArbitraryResolver(req)
    \/ ArbitraryGetQuery
    \/ DiscardArbitrary

SpecArbitrary == InitArbitrary /\ [][NextArbitrary]_vars

\* ------------------------------------------------------- Set.field_names
InitSet ==
    /\ ProjectFields = LoadedProject
    /\ attrs = LoadedAttrs
    /\ th = [tid \in {1} |-> IdleCaller]
    /\ flt = NoFilterObject
    /\ amq = NoArbitraryResolver
    /\ st \in { SetObject(SetDef("under_test", v, fields), "new", NONE, <<>>) :
                   v \in {"orders", NONE}, fields \in SeqsUpTo(SetEntries, MaxSetFields) }
    /\ vw = NoViewObject
    /\ mrq = NoMergedResultsQuery

\* Set.field_names()
FieldNamesCall ==
    /\ st.state = "new"
    /\ LET Done(r) ==
               st' = [st EXCEPT !.state = IF r.err = NONE THEN "returned" ELSE "raised",
                                !.err = r.err, !.names = r.names]
       IN  Done(field_names(st.definition))
    /\ UNCHANGED <<ProjectFields, attrs, th, flt, amq, vw, mrq>>

NextSet == FieldNamesCall

SpecSet == InitSet /\ [][NextSet]_vars

\* ------------------------------------- Set.field_names, entry by entry
InitSetSteps ==
    /\ ProjectFields = LoadedProject
    /\ attrs = LoadedAttrs
    /\ th = [tid \in {1} |-> IdleCaller]
    /\ flt = NoFilterObject
    /\ amq = NoArbitraryResolver
    /\ st \in { SetObject(SetDef("under_test", v, fields), "new", NONE, <<>>) :
                   v \in {"orders", NONE}, fields \in SeqsUpTo(SetEntries, MaxStepFields) }
    /\ vw = NoViewObject
    /\ mrq = NoMergedResultsQuery

\* set.field_names() is called
FieldNamesEnter ==
    /\ st.state = "new"
    /\ st' = [st EXCEPT !.state = "running",
                        !.stack = <<SetFrame(st.definition, 1, <<>>, {})>>]
    /\ UNCHANGED <<ProjectFields, attrs, th, flt, amq, vw, mrq>>

\* the innermost field_names call runs one entry further; a run is followed
\* through MaxNesting nested calls
FieldNamesStep ==
    /\ st.state = "running"
    /\ Nests(st) => Len(st.stack) < MaxNesting
    /\ st' = field_names_step(st)
    /\ UNCHANGED <<ProjectFields, attrs, th, flt, amq, vw, mrq>>

NextSetSteps == FieldNamesEnter \/ FieldNamesStep

\* the call is synchronous: once made it runs until it returns or raises
SpecSetSteps == InitSetSteps /\ [][NextSetSteps]_vars /\ WF_vars(NextSetSteps)

\* ------------------------------------------------------------ View.fields
InitView ==
    /\ ProjectFields = LoadedProject
    /\ attrs = LoadedAttrs
    /\ th = [tid \in {1} |-> IdleCaller]
    /\ flt = NoFilterObject
    /\ amq = NoArbitraryResolver
    /\ st = NoSetObject
    /\ vw \in { ViewObject(d, NoFieldCache, <<>>, <<>>) :
                   d \in SeqsUpTo(FieldDefinitions, MaxViewFields) }
    /\ mrq = NoMergedResultsQuery

\* view.fields(show_hidden=..., expand_dimension_groups=...)
ViewFieldsCall(show_hidden, expand_dimension_groups) ==
    /\ Len(vw.calls) < MaxCalls
    /\ LET Done(r) ==
               vw' = [vw EXCEPT !.cache = r.cache, !.result = r.result,
                                !.calls = Append(@, [show_hidden |-> show_hidden,
                                                     expand_dimension_groups |->
                                                         expand_dimension_groups])]
       IN  Done(View_fields(vw.cache, vw.definition, show_hidden, expand_dimension_groups))
    /\ UNCHANGED <<ProjectFields, attrs, th, flt, amq, st, mrq>>

NextView == \E show_hidden \in BOOLEAN : \E e \in BOOLEAN : ViewFieldsCall(show_hidden, e)

SpecView == InitView /\ [][NextView]_vars

\* ------------------------------------------------------------------- claims
Callers == DOMAIN th
Returned(tid) == th[tid].stage = "get_query" /\ th[tid].frame.pc = "returned"

\* what a caller's request returns when it is the first compilation on a
\* freshly loaded project, its dictionaries as the caller first wrote them
FreshCompile(c) ==
    get_single_query([c.req EXCEPT !.where = c.where0, !.having = c.having0],
                     c.frame.semicolon, LoadedAttrs).t

\* C1: the SQL a compilation returns is the SQL the same request returns
\* when compiled first on a freshly loaded project, whatever was compiled before
C1_CompileIsPure ==
    \A tid \in Callers :
        (th[tid].kind = "single" /\ Returned(tid))
            => th[tid].frame.sql = FreshCompile(th[tid]).sql

\* C2: two compilations interleaved on one shared project each return what
\* the same request returns when it is compiled alone
C2_InterleavedAsAlone ==
    \A tid \in Callers :
        (th[tid].kind = "single" /\ Returned(tid))
            => th[tid].frame.sql = FreshCompile(th[tid]).sql

\* some name occurs both in metrics and in dimensions
SharedName(req) == Range(req.metrics) \cap Range(req.dimensions) # {}

\* C3: a request with a name in both metrics and dimensions is rejected
\* with a QueryError when the resolver is constructed
C3_SharedNameRaisesQueryError ==
    \A tid \in Callers :
        (th[tid].stage = "init" /\ SharedName(th[tid].req))
            => (th[tid].frame.pc = "raised" /\ th[tid].frame.err = "QueryError")


\* a requested dimension is the primary key of the base view
SelectsBasePrimaryKey(req) ==
    \E k \in 1..Len(req.dimensions) :
        /\ ProjectFields[req.dimensions[k]].primary_key = "yes"
        /\ ProjectFields[req.dimensions[k]].view = base_view_name(req.metrics, req.dimensions)

\* C4: with the base view's primary key selected alongside measures, the
\* statement that selects the base view's measures has no GROUP BY: the
\* statement of the single path, the base CTE of the cumulative planner
C4_PrimaryKeyNoGroupBy ==
    \A tid \in Callers :
        LET c == th[tid] IN
        (/\ c.kind = "single" /\ Returned(tid)
         /\ Len(c.req.metrics) > 0 /\ ~c.req.force_group_by
         /\ SelectsBasePrimaryKey(c.req))
            => IF c.frame.sql.kind = "single" THEN c.frame.sql.group_by = <<>>
               ELSE \A k \in 1..Len(c.frame.sql.with) :
                        c.frame.sql.with[k].table.kind = "base"
                            => c.frame.sql.with[k].body.group_by = <<>>

\* C5: after parse_input, no_group_by is true iff a requested dimension is
\* the primary key of the base view (the view of the first metric, or of the
\* first dimension without metrics) and force_group_by is not set
C5_NoGroupByIff ==
    \A tid \in Callers :
        LET c == th[tid] IN
        (c.kind = "single" /\ c.stage = "init" /\ c.frame.pc = "resolved")
            => (c.resolver.no_group_by
                    <=> (SelectsBasePrimaryKey(c.req) /\ ~c.req.force_group_by))

\* C6: a request goes to the cumulative planner iff one of its metrics is
\* of type cumulative or is a number referencing a cumulative measure
C6_CumulativeDispatch ==
    \A tid \in Callers :
        LET c == th[tid] IN
        (c.kind = "single" /\ c.stage = "get_query")
            => (c.frame.generator = "cumulative"
                    <=> \E k \in 1..Len(c.req.metrics) : is_cumulative(c.req.metrics[k]))

\* the statement ends with ';' iff the caller did not suppress it and the
\* dialect is not Druid, and no CTE body carries a semicolon
SemicolonRule(sql, semicolon, query_type) ==
    /\ sql.semicolon <=> (semicolon /\ query_type # "DRUID")
    /\ \A k \in 1..Len(sql.with) : ~sql.with[k].body.semicolon

\* C7: the SQL the merged-results compilation returns ends with ';' iff the
\* caller did not suppress it and the dialect is not Druid; no CTE body
\* carries a semicolon
C7_SemicolonUnlessSuppressedOrDruid ==
    mrq.state = "returned"
        => SemicolonRule(mrq.sql, mrq.semicolon, mrq.definition.query_type)

\* the same rule on the statements the resolvers return (single and
\* cumulative compilations)
C7_ResolverSemicolon ==
    \A tid \in Callers :
        Returned(tid) => SemicolonRule(th[tid].frame.sql, th[tid].frame.semicolon,
                                       th[tid].req.query_type)

\* the values that tell the plain filters of FilterLeaves apart
LeafValues == { l.value.v : l \in FilterLeaves }

RECURSIVE LeavesOfDef(_)
RECURSIVE LeavesOfDefs(_)
\* the values of the plain filters of a dictionary, left to right
LeavesOfDef(d) ==
    IF is_filter_group(d) THEN LeavesOfDefs(filter_conditions(d)) ELSE <<d.value.v>>
LeavesOfDefs(ds) ==
    IF Len(ds) = 0 THEN <<>> ELSE LeavesOfDef(Head(ds)) \o LeavesOfDefs(Tail(ds))

RECURSIVE LeavesOfCrit(_)
\* the values of the comparisons of a criterion, left to right
LeavesOfCrit(c) ==
    IF c.node = "leaf" THEN <<c.rhs.v>>
    ELSE IF c.node \in {"and", "or"}
    THEN LeavesOfCrit(c.args[1]) \o LeavesOfCrit(c.args[2])
    ELSE <<>>

RECURSIVE HoldsDef(_, _)
\* the truth of a filter dictionary when row tells which comparisons hold:
\* an "or" group holds when some child does, any other group when all do
HoldsDef(d, row) ==
    IF is_filter_group(d)
    THEN IF "logical_operator" \in d.keys /\ d.logical_operator = "or"
         THEN \E k \in 1..Len(filter_conditions(d)) : HoldsDef(filter_conditions(d)[k], row)
         ELSE \A k \in 1..Len(filter_conditions(d)) : HoldsDef(filter_conditions(d)[k], row)
    ELSE row[d.value.v]

RECURSIVE HoldsCrit(_, _)
\* the truth of a criterion on the same row, as SQL evaluates AND and OR
HoldsCrit(c, row) ==
    IF c.node = "leaf" THEN row[c.rhs.v]
    ELSE IF c.node = "and" THEN HoldsCrit(c.args[1], row) /\ HoldsCrit(c.args[2], row)
    ELSE IF c.node = "or" THEN HoldsCrit(c.args[1], row) \/ HoldsCrit(c.args[2], row)
    ELSE TRUE

\* C8: the criterion a filter group compiles to holds on a row exactly when
\* the group does (all children for "and" or no operator, some child for
\* "or", nested groups by the same rule), and its comparisons are the
\* group's plain filters in the same order
C8_GroupMirrorsNesting ==
    (flt.state = "compiled" /\ is_filter_group(flt.definition))
        => /\ LeavesOfCrit(flt.crit) = LeavesOfDef(flt.definition)
           /\ \A row \in [LeafValues \cup Range(LeavesOfDef(flt.definition)) -> BOOLEAN] :
                  HoldsCrit(flt.crit, row) = HoldsDef(flt.definition, row)

\* C8 witness: an "and" group whose second child is an "or" group of two
\* plain filters was compiled to an AND over an OR
C8_Witness ==
    /\ flt.state = "compiled"
    /\ flt.definition.logical_operator = "and"
    /\ Len(flt.definition.conditions) = 2
    /\ is_filter_group(flt.definition.conditions[2])
    /\ flt.definition.conditions[2].logical_operator = "or"
    /\ Len(flt.definition.conditions[2].conditions) = 2
    /\ flt.crit.node = "and"
    /\ flt.crit.args[2].node = "or"

RECURSIVE WellFormed(_)
\* a filter dictionary the filter compiler accepts the keys of: a plain
\* filter with "field", a literal, or a group of such
WellFormed(d) ==
    \/ "field" \in d.keys
    \/ "literal" \in d.keys
    \/ /\ "conditions" \in d.keys /\ Len(d.conditions) > 0
       /\ \A k \in 1..Len(d.conditions) : WellFormed(d.conditions[k])

\* C9: a request whose filter lists hold literal or group entries is accepted
\* when the resolver is constructed
C9_LiteralAndGroupAccepted ==
    \A tid \in Callers :
        LET c == th[tid]
            filters == c.req.where \o c.req.having
        IN  (/\ c.stage = "init"
             /\ \E k \in 1..Len(filters) : "field" \notin filters[k].keys
             /\ \A k \in 1..Len(filters) : WellFormed(filters[k]))
                => c.frame.pc = "resolved"

\* some entry of where or having is a plain filter without "field"
PlainWithoutField(req) ==
    \E k \in 1..Len(req.where \o req.having) :
        (req.where \o req.having)[k].keys \cap {"field", "literal", "conditions"} = {}

\* C10: a request with a plain filter without "field" is rejected with a
\* ParseError
C10_MissingFieldRaisesParseError ==
    \A tid \in Callers :
        (th[tid].kind # NONE /\ PlainWithoutField(th[tid].req))
            => (Finished(tid) => th[tid].frame.err = "ParseError")

RECURSIVE HasBadOperator(_)
\* the dictionary is, or holds at some depth, a group whose logical_operator
\* is present and is neither "and" nor "or"
HasBadOperator(d) ==
    /\ is_filter_group(d)
    /\ \/ "logical_operator" \in d.keys /\ d.logical_operator \notin {"and", "or"}
       \/ \E k \in 1..Len(ValidatedConditions(d)) : HasBadOperator(ValidatedConditions(d)[k])

\* C11: a filter group with a logical_operator other than "and" / "or", at
\* any depth, raises ParseError when the filter is constructed, and no
\* criterion is produced
C11_BadOperatorRaisesParseError ==
    (flt.state # "new" /\ HasBadOperator(flt.definition))
        => /\ flt.state = "raised"
           /\ flt.err = "ParseError"
           /\ flt.crit = EmptyCriterion

\* the dimensions of join component hash that stand for field there: the
\* other members of a mapping that holds the field, and, for a timeframe of
\* a canonical date, the same timeframe of the canonical dates of that component
MappedIn(field, hash) ==
    { n \in FieldNames :
        /\ join_graph_hash(ProjectFields[n].view) = hash
        /\ \/ \E m \in 1..Len(Mappings) : {field, n} \subseteq Range(Mappings[m])
           \/ /\ field \in DateFieldNames /\ n \in DateFieldNames
              /\ FieldKey(field) = canon_date(field)
              /\ FieldKey(n) = canon_date(n)
              /\ ProjectFields[n].dimension_group = ProjectFields[field].dimension_group }

\* the bucketing of a merged request was completed: derive_sub_queries3
\* returned, whatever the later steps of the call did
BucketingDone(tid) ==
    /\ th[tid].kind = "top" /\ th[tid].req.merged_result
    /\ th[tid].stage = "get_query" /\ Finished(tid)
    /\ th[tid].frame.step \in {"sub_queries", "merged_result_query"}

\* C12: when the bucketing of a merged request is completed, every bucket
\* outside the join component of a where filter's field has that filter in
\* its filter list, rewritten to the dimension mapped to the field in the
\* bucket; without such a dimension the bucketing raises
C12_FilterTranslated ==
    \A tid \in Callers :
        LET c == th[tid] IN
        BucketingDone(tid) =>
            \A b \in 1..Len(c.frame.query_metrics) : \A k \in 1..Len(c.where0) :
                LET key == c.frame.query_metrics[b].key
                    filters == Get(c.frame.query_where, key)
                    w == c.where0[k]
                IN  key.hash # join_graph_hash(ProjectFields[w.field].view) =>
                        \E x \in 1..Len(filters) :
                            /\ filters[x].def.field \in MappedIn(w.field, key.hash)
                            /\ filters[x].def.expression = w.expression

\* the join component of a bucket of a merged statement
BucketHash(sql, table) ==
    join_graph_hash(sql.with[CHOOSE b \in 1..Len(sql.with) : sql.with[b].table = table].body.from.name)

\* the dimension that stands for a requested dimension in a join component:
\* the dimension itself in its own component, else the one mapped to it
PairedIn(d, hash) ==
    IF join_graph_hash(ProjectFields[d].view) = hash THEN d
    ELSE IF MappedIn(d, hash) = {} THEN NONE
    ELSE CHOOSE n \in MappedIn(d, hash) : TRUE

\* C13: a merged request whose sub-queries were all generated returns a
\* statement that selects FROM one bucket and INNER JOINs every other bucket
\* once; the ON clause of a join equates, for each requested dimension in
\* order, the column of the dimension paired to it in the FROM bucket with
\* the column of the one paired to it in the joined bucket; without
\* dimensions the ON clause is empty (1=1)
C13_JoinOnPairedDimensions ==
    \A tid \in Callers :
        LET c == th[tid]
            sql == c.frame.sql
            dims == c.req.dimensions
            buckets == {sql.with[b].table : b \in 1..Len(sql.with)}
        IN  (BucketingDone(tid) /\ c.frame.step = "merged_result_query") =>
                /\ Returned(tid)
                /\ sql.from \in buckets
                /\ Len(sql.joins) = Cardinality(buckets) - 1
                /\ {sql.joins[j].table : j \in 1..Len(sql.joins)} = buckets \ {sql.from}
                /\ \A j \in 1..Len(sql.joins) :
                      /\ sql.joins[j].type = "inner"
                      /\ Len(sql.joins[j].on) = 2 * Len(dims)
                      /\ \A i \in 1..Len(dims) :
                            /\ PairedIn(dims[i], BucketHash(sql, sql.from)) # NONE
                            /\ PairedIn(dims[i], BucketHash(sql, sql.joins[j].table)) # NONE
                            /\ sql.joins[j].on[2 * i - 1]
                                 = alias(PairedIn(dims[i], BucketHash(sql, sql.from)), attrs)
                            /\ sql.joins[j].on[2 * i]
                                 = alias(PairedIn(dims[i], BucketHash(sql, sql.joins[j].table)),
                                         attrs)

\* the metrics a merged request puts into buckets: the references of its
\* merged metrics and its other metrics
BucketedMetrics(req) ==
    UNION {Range(ProjectFields[m].refs) : m \in {x \in Range(req.metrics) : is_merged_result(x)}}
        \cup {x \in Range(req.metrics) : ~is_merged_result(x)}

\* the buckets of the request were formed and one of them holds two metrics
\* of different canon_date
SomeBucketDiffers(req) ==
    /\ \A m \in BucketedMetrics(req) : canon_date(m) # NoKey
    /\ \E m \in BucketedMetrics(req) : \E n \in BucketedMetrics(req) :
          BucketKey(m) = BucketKey(n) /\ canon_date(m) # canon_date(n)

\* C14: a merged request one of whose buckets holds metrics of differing
\* canon_date ends with NotImplementedError; no sub-query was generated: no
\* statement exists and no filter of the caller was rewritten by a sub-query
C14_DifferingCanonDateRejected ==
    \A tid \in Callers :
        LET c == th[tid] IN
        (/\ c.kind = "top" /\ c.req.merged_result
         /\ c.stage = "get_query" /\ c.frame.pc # "start"
         /\ SomeBucketDiffers(c.req)) =>
            /\ c.frame.pc = "raised"
            /\ c.frame.err = "NotImplementedError"
            /\ c.frame.sql = NoStmt
            /\ c.frame.where = c.where0

\* C14 witness: a merged request for two metrics of one join component whose
\* canon dates differ and share a bucket was rejected with NotImplementedError
C14_Witness ==
    \E tid \in Callers :
        /\ th[tid].kind = "top" /\ th[tid].req.merged_result
        /\ th[tid].stage = "get_query" /\ th[tid].frame.pc = "raised"
        /\ th[tid].frame.err = "NotImplementedError"
        /\ th[tid].req.metrics = <<"site_visits", "site_signups">>
        /\ th[tid].req.where # <<>>
        /\ SomeBucketDiffers(th[tid].req)

\* a sub-query of the request is a dictionary with a non-empty funnel
CarriesFunnel(req) ==
    \E i \in 1..Len(req.merged_queries) :
        /\ req.merged_queries[i].dict
        /\ req.merged_queries[i].funnel.present
        /\ req.merged_queries[i].funnel.keys # {}

\* C15: an arbitrary merged request one of whose sub-queries carries a funnel
\* is rejected by the constructor with QueryError, and no sub-query resolver
\* was created for it
C15_FunnelRejectedInConstructor ==
    (amq.state # "none" /\ CarriesFunnel(amq.req)) =>
        /\ amq.state = "raised"
        /\ amq.err = "QueryError"
        /\ amq.created = 0
        /\ amq.sub_queries = <<>>

\* C15 witness: the constructor rejected a request whose first sub-query is
\* acceptable and whose second sub-query, acceptable otherwise, carries a funnel
C15_Witness ==
    /\ amq.state = "raised" /\ amq.err = "QueryError" /\ amq.created = 0
    /\ Len(amq.req.merged_queries) = 2
    /\ validate_arbitrary_merged_queries(<<amq.req.merged_queries[1]>>, 1) = NONE
    /\ amq.req.merged_queries[2].funnel = FunnelDict({"steps", "within"})
    /\ amq.req.merged_queries[2].join_fields
         = JoinFields(<<JoinField("session_region", "region")>>)

\* name stands for a dimension among dimensions: it is one of them, or a
\* member of its mapping is
ResolvesTo(name, dimensions) ==
    \/ name \in Range(dimensions)
    \/ \E m \in 1..Len(Mappings) :
          name \in Range(Mappings[m]) /\ Range(Mappings[m]) \cap Range(dimensions) # {}

\* the (field, 1-based sub-query number) pairs of the join fields of a request
\* that stand for no dimension of the sub-query they must belong to
UnresolvedJoinFields(req) ==
    UNION { UNION { {[field |-> req.merged_queries[i].join_fields.items[j].field,
                      query_number |-> i] :
                        x \in {y \in {1} :
                                 ~ResolvesTo(req.merged_queries[i].join_fields.items[j].field,
                                             req.merged_queries[i].dimensions)}}
                    \cup
                    {[field |-> req.merged_queries[i].join_fields.items[j].source_field,
                      query_number |-> 1] :
                        x \in {y \in {1} :
                                 ~ResolvesTo(req.merged_queries[i].join_fields.items[j].source_field,
                                             req.merged_queries[1].dimensions)}}
                    : j \in 1..Len(req.merged_queries[i].join_fields.items) }
            : i \in 2..Len(req.merged_queries) }

\* C16: when get_query of an arbitrary merged request has generated the
\* first sub-query and some join field of a later sub-query stands for no
\* dimension of the sub-query it must belong to, get_query ends with
\* JoinError naming such a field and the 1-based number of its sub-query
C16_UnresolvedJoinFieldRaisesJoinError ==
    (/\ amq.state \in {"failed", "returned"}
     /\ Len(amq.sub_queries) >= 1
     /\ UnresolvedJoinFields(amq.req) # {}) =>
        /\ amq.state = "failed"
        /\ amq.err = "JoinError"
        /\ amq.detail \in UnresolvedJoinFields(amq.req)

\* a metric of the request is a measure of type cumulative
RequestsCumulative(req) ==
    \E k \in 1..Len(req.metrics) : ProjectFields[req.metrics[k]].type = "cumulative"

\* C17: get_query of a request with a cumulative metric for a dialect other
\* than Snowflake, Redshift and BigQuery ends with NotImplementedError and
\* leaves no statement
C17_CumulativeDialectRejected ==
    \A tid \in Callers :
        LET c == th[tid] IN
        (/\ c.kind = "single" /\ c.stage = "get_query"
         /\ RequestsCumulative(c.req)
         /\ c.req.query_type \notin {"SNOWFLAKE", "REDSHIFT", "BIGQUERY"}) =>
            /\ c.frame.pc = "raised"
            /\ c.frame.err = "NotImplementedError"
            /\ c.frame.sql = NoStmt

\* C17 witness: a cumulative request with a dimension was refused for Druid
C17_Witness ==
    \E tid \in Callers :
        /\ th[tid].kind = "single" /\ th[tid].stage = "get_query"
        /\ th[tid].req.metrics = <<"total_lifetime_revenue">>
        /\ th[tid].req.dimensions = <<"order_date">>
        /\ th[tid].req.query_type = "DRUID"
        /\ th[tid].frame.pc = "raised"
        /\ th[tid].frame.err = "NotImplementedError"

\* the names the k-th entry of a set stands for: the qualified name of a
\* plain or excluded field, the field names of a referenced set
EntryNames(set, k) ==
    IF set.fields[k].star THEN internal_get_fields_from_set(set, set.fields[k], {}).names
    ELSE <<ViewField(IF set.fields[k].view # NONE THEN set.fields[k].view ELSE set.view_name,
                     set.fields[k].name)>>

\* the names the include entries of a set contribute, in order
IncludedNames(set) ==
    Concat([k \in 1..Len(set.fields) |->
               IF set.fields[k].dash THEN <<>> ELSE EntryNames(set, k)])

\* the names the exclude entries of a set name
ExcludedNames(set) ==
    UNION {Range(EntryNames(set, k)) : k \in {x \in 1..Len(set.fields) : set.fields[x].dash}}

\* the position of the first occurrence of a name in a sequence
FirstIndex(seq, f) == CHOOSE i \in 1..Len(seq) : seq[i] = f /\ \A j \in 1..(i - 1) : seq[j] # f

\* C18: the list Set.field_names returns holds exactly the included names no
\* exclude entry names, wherever the exclude entry stands, each once, in the
\* order of their first inclusion
C18_FieldNamesIncludedMinusExcluded ==
    st.state = "returned" =>
        /\ Range(st.names) = Range(IncludedNames(st.definition)) \ ExcludedNames(st.definition)
        /\ \A i \in 1..Len(st.names) : \A j \in 1..Len(st.names) :
              i < j => /\ st.names[i] # st.names[j]
                       /\ FirstIndex(IncludedNames(st.definition), st.names[i])
                            < FirstIndex(IncludedNames(st.definition), st.names[j])

\* C18 witness: a set was expanded in which a name is included twice and an
\* included name is excluded by an entry standing before its inclusion
C18_Witness ==
    /\ st.state = "returned"
    /\ Len(st.names) >= 1
    /\ Len(IncludedNames(st.definition)) > Cardinality(Range(IncludedNames(st.definition)))
    /\ \E k \in 1..Len(st.definition.fields) : \E i \in 1..Len(st.definition.fields) :
          /\ st.definition.fields[k].dash /\ ~st.definition.fields[i].dash
          /\ k < i
          /\ Range(EntryNames(st.definition, k)) \cap Range(EntryNames(st.definition, i)) # {}

\* C19: constructing a filter catches and passes over no exception: an error
\* met while the filter's field or value is resolved reaches the caller
C19_NoErrorDiscarded ==
    flt.state \notin {"none", "new"} => flt.caught = {}

\* C20: the SELECT list of a statement returned for a request that is not
\* merged, the final SELECT of a cumulative statement included, is one item
\* per requested dimension, in request order, then one item per requested
\* metric, in request order, each under the alias view_field of its field
\* as the project defines it
C20_SelectListInRequestOrder ==
    \A tid \in Callers :
        LET c == th[tid]
            names == c.req.dimensions \o c.req.metrics
        IN  (Returned(tid) /\ ~c.req.merged_result) =>
                /\ Len(c.frame.sql.select) = Len(names)
                /\ \A k \in 1..Len(names) : c.frame.sql.select[k].as = alias(names[k], LoadedAttrs)

\* a merged request whose get_query went through derive_sub_queries3
Bucketed(tid) ==
    /\ th[tid].kind = "top" /\ th[tid].req.merged_result
    /\ th[tid].stage = "get_query" /\ Finished(tid)

\* every bucket is keyed by the text of the canon_date and the join graph
\* hash of each of its metrics, and holds no merged metric
KeyedByTextAndHash(query_metrics) ==
    \A k \in 1..Len(query_metrics) : \A x \in 1..Len(query_metrics[k].items) :
        LET m == query_metrics[k].items[x] IN
        /\ query_metrics[k].key.canon_date = CanonText(canon_date(m))
        /\ query_metrics[k].key.hash = join_graph_hash(ProjectFields[m].view)
        /\ ~is_merged_result(m)

\* C21: after the bucketing of a merged request every bucket key is the
\* underscored canon_date and the join graph hash of the bucket's metrics,
\* the metrics of a bucket have one canon_date, the one the key names, and
\* no merged metric is in a bucket
C21_BucketsKeyedByCanonDateAndHash ==
    \A tid \in Callers :
        LET query_metrics == th[tid].frame.query_metrics IN
        Bucketed(tid) =>
            /\ KeyedByTextAndHash(query_metrics)
            /\ \A k \in 1..Len(query_metrics) : \A x \in 1..Len(query_metrics[k].items) :
                  canon_date(query_metrics[k].items[x]) = canon_date(query_metrics[k].items[1])

\* C21, as far as it holds: the key of a bucket is the underscored text of
\* the canon_date and the join graph hash of each of its metrics, and a
\* merged metric is in no bucket while the measures it references are
C21_BucketsKeyedByText ==
    \A tid \in Callers :
        Bucketed(tid) =>
            /\ KeyedByTextAndHash(th[tid].frame.query_metrics)
            /\ (/\ parse_field_names(th[tid].req.where, th[tid].req.having).err = NONE
                /\ \A m \in BucketedMetrics(th[tid].req) : canon_date(m) # NoKey) =>
                  \A m \in Range(th[tid].req.metrics) :
                      is_merged_result(m) =>
                          \A r \in Range(ProjectFields[m].refs) :
                              \E k \in 1..Len(th[tid].frame.query_metrics) :
                                  r \in Range(th[tid].frame.query_metrics[k].items)

\* C21 witness: a merged metric was decomposed into two buckets, one per
\* measure it references
C21_Witness ==
    \E tid \in Callers :
        /\ Bucketed(tid) /\ Returned(tid)
        /\ th[tid].req.metrics = <<"revenue_per_session">>
        /\ Len(th[tid].frame.query_metrics) = 2
        /\ th[tid].frame.query_metrics[1].items = <<"total_revenue">>
        /\ th[tid].frame.query_metrics[2].items = <<"number_of_sessions">>

\* the places (bucket, position) at which a metric is stored
PlacesOf(query_metrics, m) ==
    {<<k, x>> \in (1..Len(query_metrics)) \X (1..(MaxMetrics * MaxMetrics)) :
        x <= Len(query_metrics[k].items) /\ query_metrics[k].items[x] = m}

\* C28: after the bucketing of a merged request every measure the request
\* needs, a requested metric that is not merged or a measure a requested
\* merged metric references, is stored in exactly one bucket, exactly once
C28_EachMeasureInOneBucketOnce ==
    \A tid \in Callers :
        (/\ Bucketed(tid)
         /\ parse_field_names(th[tid].req.where, th[tid].req.having).err = NONE
         /\ \A m \in BucketedMetrics(th[tid].req) : canon_date(m) # NoKey) =>
            \A m \in BucketedMetrics(th[tid].req) :
                Cardinality(PlacesOf(th[tid].frame.query_metrics, m)) = 1

\* C29: in a merged request every where filter placed in the filter list of
\* a bucket references a field whose view belongs to the join component of
\* that bucket
C29_BucketFiltersOfOwnComponent ==
    \A tid \in Callers :
        LET query_where == th[tid].frame.query_where IN
        Bucketed(tid) =>
            \A k \in 1..Len(query_where) : \A x \in 1..Len(query_where[k].items) :
                join_graph_hash(ProjectFields[query_where[k].items[x].def.field].view)
                    = query_where[k].key.hash

\* a statement of the cumulative generator was returned to a caller
ReturnedCumulative(tid) ==
    /\ Returned(tid) /\ ~th[tid].req.merged_result
    /\ th[tid].frame.generator = "cumulative"

\* the names of the CTEs of a cumulative statement in the order of the
\* claim: date_spine, the pair of each cumulative metric, base when present
ExpectedCtes(cumulative, non_cumulative) ==
    <<DateSpine>>
    \o Concat([k \in 1..Len(cumulative) |->
                  <<TableRef("subquery", cumulative[k]), TableRef("aggregated", cumulative[k])>>])
    \o (IF Len(non_cumulative) > 0 THEN <<TableRef("base", NONE)>> ELSE <<>>)

\* the tables a statement reads: its FROM and the tables of its JOINs
TablesRead(sql) == {sql.from} \cup {sql.joins[j].table : j \in 1..Len(sql.joins)}

\* C22: the WITH clause of a cumulative statement lists date_spine first,
\* then for each cumulative metric in order its subquery CTE immediately
\* followed by its aggregated CTE, then base last when present; every CTE
\* that an aggregated CTE or the final SELECT reads is defined before it
C22_CteOrder ==
    \A tid \in Callers :
        LET sql == th[tid].frame.sql
            sep == separate_metrics(th[tid].req.metrics, th[tid].req.having)
        IN  ReturnedCumulative(tid) =>
                /\ [k \in 1..Len(sql.with) |-> sql.with[k].table]
                     = ExpectedCtes(sep.cumulative, sep.non_cumulative)
                /\ \A k \in 1..Len(sql.with) :
                      sql.with[k].table.kind = "aggregated" =>
                          TablesRead(sql.with[k].body)
                              \subseteq {sql.with[j].table : j \in 1..(k - 1)}
                /\ TablesRead(sql) \subseteq {sql.with[j].table : j \in 1..Len(sql.with)}

\* C22 witness: a statement for two cumulative metrics and a plain measure
\* in a having filter was returned, its WITH clause holding six CTEs
C22_Witness ==
    \E tid \in Callers :
        /\ ReturnedCumulative(tid)
        /\ th[tid].req.metrics = <<"lifetime_visits", "lifetime_signups">>
        /\ Len(th[tid].req.having) = 1
        /\ Len(th[tid].frame.sql.with) = 6
        /\ th[tid].frame.sql.with[6].table = TableRef("base", NONE)

\* the aggregated CTEs of a statement, and whether it has a base CTE
AggregatedCtes(sql) ==
    {sql.with[k].table : k \in {j \in 1..Len(sql.with) : sql.with[j].table.kind = "aggregated"}}
HasBase(sql) == \E k \in 1..Len(sql.with) : sql.with[k].table = TableRef("base", NONE)

\* the final SELECT reads FROM base when the statement has a base CTE, else
\* FROM the aggregated CTE of the first cumulative metric; every other
\* aggregated CTE is joined exactly once
FromAndJoins(sql, cumulative) ==
    /\ sql.from = IF HasBase(sql) THEN TableRef("base", NONE)
                  ELSE TableRef("aggregated", cumulative[1])
    /\ {sql.joins[j].table : j \in 1..Len(sql.joins)} = AggregatedCtes(sql) \ {sql.from}
    /\ Len(sql.joins) = Cardinality(AggregatedCtes(sql) \ {sql.from})

\* C23: a cumulative statement has a base CTE, and its final SELECT reads
\* FROM base, iff a non-cumulative metric is among the metrics of the request
\* or the fields of its having filters; otherwise it reads FROM the first
\* cumulative metric's aggregated CTE; every other aggregated CTE is joined once
C23_BaseIffNonCumulativeRequested ==
    \A tid \in Callers :
        LET c == th[tid]
            requested == Range(c.req.metrics) \cup {c.req.having[k].field : k \in 1..Len(c.req.having)}
        IN  ReturnedCumulative(tid) =>
                /\ HasBase(c.frame.sql) <=> \E n \in requested : ~is_cumulative(n)
                /\ FromAndJoins(c.frame.sql, c.frame.cumulative_metrics)

\* C23 as the code has it: the base CTE exists iff separate_metrics finds a
\* non-cumulative metric: a requested metric or having field that is not
\* cumulative, or a non-cumulative measure referenced by a requested
\* cumulative metric of type number
C23_BaseIffNonCumulativeSeparated ==
    \A tid \in Callers :
        LET c == th[tid] IN
        ReturnedCumulative(tid) =>
            /\ HasBase(c.frame.sql)
                 <=> Len(separate_metrics(c.req.metrics, c.req.having).non_cumulative) > 0
            /\ FromAndJoins(c.frame.sql, separate_metrics(c.req.metrics, c.req.having).cumulative)

\* C23 witness: a statement for two cumulative metrics and a having filter
\* on a plain measure reads FROM base and joins both aggregated CTEs
C23_Witness ==
    \E tid \in Callers :
        /\ ReturnedCumulative(tid)
        /\ \A k \in 1..Len(th[tid].req.metrics) : is_cumulative(th[tid].req.metrics[k])
        /\ Len(th[tid].req.having) = 1
        /\ HasBase(th[tid].frame.sql)
        /\ th[tid].frame.sql.from = TableRef("base", NONE)
        /\ {th[tid].frame.sql.joins[j].table : j \in 1..Len(th[tid].frame.sql.joins)}
             = {TableRef("aggregated", "lifetime_visits"),
                TableRef("aggregated", "lifetime_signups")}

\* C24: in the final SELECT of a cumulative statement every joined
\* aggregated CTE is joined on the equality of the aliases of the requested
\* dimensions, and with no requested dimension that is not a date the join
\* condition is 1=1 (no column equated)
C24_JoinOnDimensionsOrTrueWithoutPlain ==
    \A tid \in Callers :
        LET c == th[tid] IN
        ReturnedCumulative(tid) =>
            \A j \in 1..Len(c.frame.sql.joins) :
                c.frame.sql.joins[j].on
                    = IF \A k \in 1..Len(c.req.dimensions) : c.req.dimensions[k] \in DateFieldNames
                      THEN <<>>
                      ELSE [k \in 1..Len(c.req.dimensions) |-> alias(c.req.dimensions[k], attrs)]

\* C24 as the code has it: every joined aggregated CTE is LEFT JOINed on the
\* equality of the alias of every requested dimension, dates included, in
\* request order; the condition is 1=1 only without any dimension
C24_JoinOnEveryDimension ==
    \A tid \in Callers :
        LET c == th[tid] IN
        ReturnedCumulative(tid) =>
            \A j \in 1..Len(c.frame.sql.joins) :
                /\ c.frame.sql.joins[j].type = "left"
                /\ c.frame.sql.joins[j].on
                     = [k \in 1..Len(c.req.dimensions) |-> alias(c.req.dimensions[k], attrs)]

\* C24 witness: a cumulative statement whose only dimensions are dates
\* joins an aggregated CTE on the alias of the date
C24_Witness ==
    \E tid \in Callers :
        /\ ReturnedCumulative(tid)
        /\ Len(th[tid].req.dimensions) >= 1
        /\ \A k \in 1..Len(th[tid].req.dimensions) : th[tid].req.dimensions[k] \in DateFieldNames
        /\ Len(th[tid].frame.sql.joins) >= 1
        /\ th[tid].frame.sql.joins[1].on = <<alias(th[tid].req.dimensions[1], attrs)>>

\* C24 second witness: without dimensions the join condition is 1=1
C24_WitnessTrue ==
    \E tid \in Callers :
        /\ ReturnedCumulative(tid)
        /\ th[tid].req.dimensions = <<>>
        /\ Len(th[tid].frame.sql.joins) >= 1
        /\ th[tid].frame.sql.joins[1].on = <<>>

\* the body of a CTE of a statement
CteBody(sql, table) ==
    sql.with[CHOOSE k \in 1..Len(sql.with) : sql.with[k].table = table].body

\* the number of comparisons in a list of criteria
RECURSIVE Comparisons(_)
Comparisons(crits) ==
    IF Len(crits) = 0 THEN 0
    ELSE Len(LeavesOfCrit(Head(crits))) + Comparisons(Tail(crits))

\* the filter is on (a timeframe of) the default date of the home view of
\* the measure a cumulative metric aggregates
OnDefaultDateOf(field, cumulative_metric) ==
    /\ get_default_date(cumulative_metric) # NONE
    /\ FieldKey(field) = FieldKey(get_default_date(cumulative_metric))

\* the WHERE filters of a request are plain comparisons on fields of the project
PlainWhere(req) ==
    \A k \in 1..Len(req.where) : ~is_filter_group(req.where[k]) /\ req.where[k].field \in FieldNames

\* C25: for each cumulative metric M of a cumulative statement, a WHERE
\* filter on the default date of M's home view is left out of M's subquery
\* CTE and is a HAVING comparison on date_spine.date in M's aggregated CTE,
\* every other WHERE filter is a comparison of M's subquery CTE: each
\* filter constrains M once
C25_OwnDefaultDateFilterOnSpine ==
    \A tid \in Callers :
        LET c == th[tid]
            where == c.req.where
        IN  (ReturnedCumulative(tid) /\ PlainWhere(c.req)) =>
                \A i \in 1..Len(c.frame.cumulative_metrics) :
                    LET M == c.frame.cumulative_metrics[i]
                        own == {k \in 1..Len(where) : OnDefaultDateOf(where[k].field, M)}
                    IN  /\ Comparisons(CteBody(c.frame.sql, TableRef("subquery", M)).where)
                             = Len(where) - Cardinality(own)
                        /\ Comparisons(CteBody(c.frame.sql, TableRef("aggregated", M)).having)
                             = Cardinality(own)

\* C25 as the code has it: a WHERE filter on the default date of the home
\* view of any cumulative metric of the request is left out of the subquery
\* CTE of every cumulative metric and is a HAVING comparison on
\* date_spine.date in every aggregated CTE; every other WHERE filter is a
\* comparison of every subquery CTE; each filter constrains each metric once
C25_AnyDefaultDateFilterOnSpine ==
    \A tid \in Callers :
        LET c == th[tid]
            where == c.req.where
            cumulative == c.frame.cumulative_metrics
            dates == {k \in 1..Len(where) :
                         \E i \in 1..Len(cumulative) : OnDefaultDateOf(where[k].field, cumulative[i])}
        IN  (ReturnedCumulative(tid) /\ PlainWhere(c.req)) =>
                \A i \in 1..Len(cumulative) :
                    LET agg == CteBody(c.frame.sql, TableRef("aggregated", cumulative[i])) IN
                    /\ Comparisons(CteBody(c.frame.sql, TableRef("subquery", cumulative[i])).where)
                         = Len(where) - Cardinality(dates)
                    /\ Comparisons(agg.having) = Cardinality(dates)
                    /\ \A h \in 1..Len(agg.having) :
                          agg.having[h].node = "leaf" => agg.having[h].lhs.field = "date_spine.date"

\* C25 witness: a statement for a cumulative metric and a filter on the
\* default date of its home view: no WHERE comparison in its subquery CTE,
\* one HAVING comparison on the date spine in its aggregated CTE
C25_Witness ==
    \E tid \in Callers :
        /\ ReturnedCumulative(tid) /\ PlainWhere(th[tid].req)
        /\ Len(th[tid].req.where) = 1
        /\ Len(th[tid].frame.cumulative_metrics) = 1
        /\ OnDefaultDateOf(th[tid].req.where[1].field, th[tid].frame.cumulative_metrics[1])
        /\ CteBody(th[tid].frame.sql,
                   TableRef("subquery", th[tid].frame.cumulative_metrics[1])).where = <<>>
        /\ Comparisons(CteBody(th[tid].frame.sql,
                       TableRef("aggregated", th[tid].frame.cumulative_metrics[1])).having) = 1

\* C25 second witness: a filter that is on no default date is a WHERE
\* comparison of the subquery CTE
C25_WitnessOther ==
    \E tid \in Callers :
        /\ ReturnedCumulative(tid) /\ PlainWhere(th[tid].req)
        /\ Len(th[tid].req.where) = 1
        /\ Len(th[tid].frame.cumulative_metrics) = 1
        /\ th[tid].req.where[1].field = "channel"
        /\ Comparisons(CteBody(th[tid].frame.sql,
                       TableRef("subquery", th[tid].frame.cumulative_metrics[1])).where) = 1

\* C26: _subquery leaves the shared design as it found it, when it returns
\* and when the inner generation raises: the design of a finished call of
\* the cumulative generator, whose only writes to the design are those of
\* _subquery, has the field_lookup and the no_group_by the resolver built it with
C26_SubqueryLeavesDesign ==
    \A tid \in Callers :
        LET c == th[tid] IN
        (/\ c.kind = "single" /\ c.stage = "get_query" /\ Finished(tid)
         /\ c.frame.generator = "cumulative") =>
            /\ c.frame.design.field_lookup = c.resolver.field_lookup
            /\ c.frame.design.no_group_by = c.resolver.no_group_by

\* the part of C26 that holds: a _subquery that returns leaves field_lookup
\* as it found it
C26_ReturnRestoresFieldLookup ==
    \A tid \in Callers :
        LET c == th[tid] IN
        (c.kind = "single" /\ ReturnedCumulative(tid)) =>
            c.frame.design.field_lookup = c.resolver.field_lookup

\* a call in which the inner generation of _subquery raised: the design is
\* left without the measures of the request and with the no_group_by of the
\* sub-query
C26_RaisedLeavesInnerDesign ==
    \E tid \in Callers :
        /\ th[tid].kind = "single" /\ th[tid].stage = "get_query"
        /\ th[tid].frame.generator = "cumulative"
        /\ th[tid].frame.pc = "raised"
        /\ th[tid].frame.design.field_lookup # th[tid].resolver.field_lookup

\* C27: the list View.fields returns is determined by its arguments and by
\* the view definition alone: after any earlier fields() calls on the view,
\* a call with expand_dimension_groups returns one field per timeframe or
\* interval of each dimension group, a call without returns the fields
\* unexpanded
C27_FieldsByArgumentAlone ==
    Len(vw.calls) > 0 =>
        LET last == vw.calls[Len(vw.calls)]
            all == all_fields(vw.definition, last.expand_dimension_groups)
        IN  vw.result = IF last.show_hidden THEN all ELSE shown(all)

\* what holds of View.fields: every call returns the list the first call's
\* expand_dimension_groups gives (for a view with fields)
C27_FieldsByFirstCall ==
    Len(vw.calls) > 0 =>
        LET last == vw.calls[Len(vw.calls)]
            all == all_fields(vw.definition, vw.calls[1].expand_dimension_groups)
        IN  Len(all) > 0 => vw.result = IF last.show_hidden THEN all ELSE shown(all)

\* a call with expand_dimension_groups after a call without it returned a
\* dimension group unexpanded
C27_StaleList ==
    /\ Len(vw.calls) = 2
    /\ ~vw.calls[1].expand_dimension_groups /\ vw.calls[2].expand_dimension_groups
    /\ \E k \in 1..Len(vw.definition) : vw.definition[k].field_type = "dimension_group"
    /\ \E x \in 1..Len(vw.result) : vw.result[x].dimension_group = NONE /\ vw.result[x].name = "order"

\* a field_names call stands where a call it is nested in stands: on the
\* same set, at the same entry, with the same names collected
RepeatsItself(stack) ==
    \E i, j \in 1..Len(stack) : i < j /\ stack[i] = stack[j]

\* C30: Set.field_names terminates for every project, also when *set
\* references form a cycle: it returns or raises after finitely many
\* expansions, so no call comes to stand where a call it is nested in
\* stands.  field_names reads nothing but the set and the project: a call
\* that repeats an enclosing call nests as that call did, without end
C30_NoCallRepeatsItself == ~RepeatsItself(st.stack)

\* the calls that never nest a set in itself end, and end as Set.field_names
\* does
C30_StepsAsFieldNames ==
    st.state \in {"returned", "raised"} =>
        /\ st.err = field_names(st.definition).err
        /\ st.names = field_names(st.definition).names

\* a call on a set without a cycle of *set references below it ends
C30_AcyclicTerminates ==
    (st.state = "running" /\ field_names(st.definition).err # "RecursionError")
        ~> (st.state \in {"returned", "raised"})

====
